---- MODULE Spec2Model ----
(***************************************************************************)
(* A model of the imgui-go example bindings: the GLFW and SDL2 platform    *)
(* bindings (event pass-through, construction and disposal), the example   *)
(* main functions, and the OpenGL3 renderer (GL state save/restore around  *)
(* the draw loop, device objects).                                         *)
(*                                                                         *)
(* Library enumerations (glfw.Key..., sdl.K_..., imgui.Key...) are         *)
(* modelled by their names as strings.  A bit mask is modelled as the set  *)
(* of the names of the bits that are set in it.                            *)
(***************************************************************************)
EXTENDS Integers, Sequences, FiniteSets, TLC

VARIABLES
    \* --- key translation, applied to one input
    keyLib,       \* "glfw" or "sdl": which translation function is applied
    keyArg,       \* its arguments: <<key, scancode>> or <<keycode, scancode>>
    keyResult     \* the imgui key returned, "unset" before the call

keyVars == <<keyLib, keyArg, keyResult>>

(***************************************************************************)
(* Key translation: the two switch statements.                             *)
(***************************************************************************)

\* A Go switch over constant cases: the result of the first case whose label
\* equals x, and fallthrough when no case matches.
\* The sequences over S of length at most n.
SeqsUpTo(S, n) == UNION { [1..k -> S] : k \in 0..n }

NoCase == "no-case"

SwitchOn(cases, x) ==
    IF \E i \in 1..Len(cases) : cases[i][1] = x
    THEN LET i == CHOOSE j \in 1..Len(cases) :
                      /\ cases[j][1] = x
                      /\ \A k \in 1..(j - 1) : cases[k][1] # x
         IN  cases[i][2]
    ELSE NoCase

CaseLabels(cases) == { cases[i][1] : i \in 1..Len(cases) }

\* imgui.KeyNone
KeyNone == "KeyNone"

\* The cases of the switch in glfwKeyEventToImguiKey, <<label, result>>.
glfwKeyCases ==
    << <<"KeyTab", "KeyTab">>, <<"KeyLeft", "KeyLeftArrow">>, <<"KeyRight", "KeyRightArrow">>,
       <<"KeyUp", "KeyUpArrow">>, <<"KeyDown", "KeyDownArrow">>, <<"KeyPageUp", "KeyPageUp">>,
       <<"KeyPageDown", "KeyPageDown">>, <<"KeyHome", "KeyHome">>, <<"KeyEnd", "KeyEnd">>,
       <<"KeyInsert", "KeyInsert">>, <<"KeyDelete", "KeyDelete">>, <<"KeyBackspace", "KeyBackspace">>,
       <<"KeySpace", "KeySpace">>, <<"KeyEnter", "KeyEnter">>, <<"KeyEscape", "KeyEscape">>,
       <<"KeyApostrophe", "KeyApostrophe">>, <<"KeyComma", "KeyComma">>, <<"KeyMinus", "KeyMinus">>,
       <<"KeyPeriod", "KeyPeriod">>, <<"KeySlash", "KeySlash">>, <<"KeySemicolon", "KeySemicolon">>,
       <<"KeyEqual", "KeyEqual">>, <<"KeyLeftBracket", "KeyLeftBracket">>, <<"KeyBackslash", "KeyBackslash">>,
       <<"KeyWorld1", "KeyOem102">>, <<"KeyWorld2", "KeyOem102">>, <<"KeyRightBracket", "KeyRightBracket">>,
       <<"KeyGraveAccent", "KeyGraveAccent">>, <<"KeyCapsLock", "KeyCapsLock">>, <<"KeyScrollLock", "KeyScrollLock">>,
       <<"KeyNumLock", "KeyNumLock">>, <<"KeyPrintScreen", "KeyPrintScreen">>, <<"KeyPause", "KeyPause">>,
       <<"KeyKP0", "KeyKeypad0">>, <<"KeyKP1", "KeyKeypad1">>, <<"KeyKP2", "KeyKeypad2">>,
       <<"KeyKP3", "KeyKeypad3">>, <<"KeyKP4", "KeyKeypad4">>, <<"KeyKP5", "KeyKeypad5">>,
       <<"KeyKP6", "KeyKeypad6">>, <<"KeyKP7", "KeyKeypad7">>, <<"KeyKP8", "KeyKeypad8">>,
       <<"KeyKP9", "KeyKeypad9">>, <<"KeyKPDecimal", "KeyKeypadDecimal">>, <<"KeyKPDivide", "KeyKeypadDivide">>,
       <<"KeyKPMultiply", "KeyKeypadMultiply">>, <<"KeyKPSubtract", "KeyKeypadSubtract">>, <<"KeyKPAdd", "KeyKeypadAdd">>,
       <<"KeyKPEnter", "KeyKeypadEnter">>, <<"KeyKPEqual", "KeyKeypadEqual">>, <<"KeyLeftShift", "KeyLeftShift">>,
       <<"KeyLeftControl", "KeyLeftCtrl">>, <<"KeyLeftAlt", "KeyLeftAlt">>, <<"KeyLeftSuper", "KeyLeftSuper">>,
       <<"KeyRightShift", "KeyRightShift">>, <<"KeyRightControl", "KeyRightCtrl">>, <<"KeyRightAlt", "KeyRightAlt">>,
       <<"KeyRightSuper", "KeyRightSuper">>, <<"KeyMenu", "KeyMenu">>, <<"Key0", "Key0">>,
       <<"Key1", "Key1">>, <<"Key2", "Key2">>, <<"Key3", "Key3">>,
       <<"Key4", "Key4">>, <<"Key5", "Key5">>, <<"Key6", "Key6">>,
       <<"Key7", "Key7">>, <<"Key8", "Key8">>, <<"Key9", "Key9">>,
       <<"KeyA", "KeyA">>, <<"KeyB", "KeyB">>, <<"KeyC", "KeyC">>,
       <<"KeyD", "KeyD">>, <<"KeyE", "KeyE">>, <<"KeyF", "KeyF">>,
       <<"KeyG", "KeyG">>, <<"KeyH", "KeyH">>, <<"KeyI", "KeyI">>,
       <<"KeyJ", "KeyJ">>, <<"KeyK", "KeyK">>, <<"KeyL", "KeyL">>,
       <<"KeyM", "KeyM">>, <<"KeyN", "KeyN">>, <<"KeyO", "KeyO">>,
       <<"KeyP", "KeyP">>, <<"KeyQ", "KeyQ">>, <<"KeyR", "KeyR">>,
       <<"KeyS", "KeyS">>, <<"KeyT", "KeyT">>, <<"KeyU", "KeyU">>,
       <<"KeyV", "KeyV">>, <<"KeyW", "KeyW">>, <<"KeyX", "KeyX">>,
       <<"KeyY", "KeyY">>, <<"KeyZ", "KeyZ">>, <<"KeyF1", "KeyF1">>,
       <<"KeyF2", "KeyF2">>, <<"KeyF3", "KeyF3">>, <<"KeyF4", "KeyF4">>,
       <<"KeyF5", "KeyF5">>, <<"KeyF6", "KeyF6">>, <<"KeyF7", "KeyF7">>,
       <<"KeyF8", "KeyF8">>, <<"KeyF9", "KeyF9">>, <<"KeyF10", "KeyF10">>,
       <<"KeyF11", "KeyF11">>, <<"KeyF12", "KeyF12">>, <<"KeyF13", "KeyF13">>,
       <<"KeyF14", "KeyF14">>, <<"KeyF15", "KeyF15">>, <<"KeyF16", "KeyF16">>,
       <<"KeyF17", "KeyF17">>, <<"KeyF18", "KeyF18">>, <<"KeyF19", "KeyF19">>,
       <<"KeyF20", "KeyF20">>, <<"KeyF21", "KeyF21">>, <<"KeyF22", "KeyF22">>,
       <<"KeyF23", "KeyF23">>, <<"KeyF24", "KeyF24">> >>

\* The cases of the first switch (on the keycode) in sdl2KeyEventToImguiKey.
sdl2KeycodeCases ==
    << <<"K_TAB", "KeyTab">>, <<"K_LEFT", "KeyLeftArrow">>, <<"K_RIGHT", "KeyRightArrow">>,
       <<"K_UP", "KeyUpArrow">>, <<"K_DOWN", "KeyDownArrow">>, <<"K_PAGEUP", "KeyPageUp">>,
       <<"K_PAGEDOWN", "KeyPageDown">>, <<"K_HOME", "KeyHome">>, <<"K_END", "KeyEnd">>,
       <<"K_INSERT", "KeyInsert">>, <<"K_DELETE", "KeyDelete">>, <<"K_BACKSPACE", "KeyBackspace">>,
       <<"K_SPACE", "KeySpace">>, <<"K_RETURN", "KeyEnter">>, <<"K_ESCAPE", "KeyEscape">>,
       <<"K_COMMA", "KeyComma">>, <<"K_PERIOD", "KeyPeriod">>, <<"K_SEMICOLON", "KeySemicolon">>,
       <<"K_CAPSLOCK", "KeyCapsLock">>, <<"K_SCROLLLOCK", "KeyScrollLock">>, <<"K_NUMLOCKCLEAR", "KeyNumLock">>,
       <<"K_PRINTSCREEN", "KeyPrintScreen">>, <<"K_PAUSE", "KeyPause">>, <<"K_KP_0", "KeyKeypad0">>,
       <<"K_KP_1", "KeyKeypad1">>, <<"K_KP_2", "KeyKeypad2">>, <<"K_KP_3", "KeyKeypad3">>,
       <<"K_KP_4", "KeyKeypad4">>, <<"K_KP_5", "KeyKeypad5">>, <<"K_KP_6", "KeyKeypad6">>,
       <<"K_KP_7", "KeyKeypad7">>, <<"K_KP_8", "KeyKeypad8">>, <<"K_KP_9", "KeyKeypad9">>,
       <<"K_KP_PERIOD", "KeyKeypadDecimal">>, <<"K_KP_DIVIDE", "KeyKeypadDivide">>, <<"K_KP_MULTIPLY", "KeyKeypadMultiply">>,
       <<"K_KP_MINUS", "KeyKeypadSubtract">>, <<"K_KP_PLUS", "KeyKeypadAdd">>, <<"K_KP_ENTER", "KeyKeypadEnter">>,
       <<"K_KP_EQUALS", "KeyKeypadEqual">>, <<"K_LCTRL", "KeyLeftCtrl">>, <<"K_LSHIFT", "KeyLeftShift">>,
       <<"K_LALT", "KeyLeftAlt">>, <<"K_LGUI", "KeyLeftSuper">>, <<"K_RCTRL", "KeyRightCtrl">>,
       <<"K_RSHIFT", "KeyRightShift">>, <<"K_RALT", "KeyRightAlt">>, <<"K_RGUI", "KeyRightSuper">>,
       <<"K_APPLICATION", "KeyMenu">>, <<"K_0", "Key0">>, <<"K_1", "Key1">>,
       <<"K_2", "Key2">>, <<"K_3", "Key3">>, <<"K_4", "Key4">>,
       <<"K_5", "Key5">>, <<"K_6", "Key6">>, <<"K_7", "Key7">>,
       <<"K_8", "Key8">>, <<"K_9", "Key9">>, <<"K_a", "KeyA">>,
       <<"K_b", "KeyB">>, <<"K_c", "KeyC">>, <<"K_d", "KeyD">>,
       <<"K_e", "KeyE">>, <<"K_f", "KeyF">>, <<"K_g", "KeyG">>,
       <<"K_h", "KeyH">>, <<"K_i", "KeyI">>, <<"K_j", "KeyJ">>,
       <<"K_k", "KeyK">>, <<"K_l", "KeyL">>, <<"K_m", "KeyM">>,
       <<"K_n", "KeyN">>, <<"K_o", "KeyO">>, <<"K_p", "KeyP">>,
       <<"K_q", "KeyQ">>, <<"K_r", "KeyR">>, <<"K_s", "KeyS">>,
       <<"K_t", "KeyT">>, <<"K_u", "KeyU">>, <<"K_v", "KeyV">>,
       <<"K_w", "KeyW">>, <<"K_x", "KeyX">>, <<"K_y", "KeyY">>,
       <<"K_z", "KeyZ">>, <<"K_F1", "KeyF1">>, <<"K_F2", "KeyF2">>,
       <<"K_F3", "KeyF3">>, <<"K_F4", "KeyF4">>, <<"K_F5", "KeyF5">>,
       <<"K_F6", "KeyF6">>, <<"K_F7", "KeyF7">>, <<"K_F8", "KeyF8">>,
       <<"K_F9", "KeyF9">>, <<"K_F10", "KeyF10">>, <<"K_F11", "KeyF11">>,
       <<"K_F12", "KeyF12">>, <<"K_F13", "KeyF13">>, <<"K_F14", "KeyF14">>,
       <<"K_F15", "KeyF15">>, <<"K_F16", "KeyF16">>, <<"K_F17", "KeyF17">>,
       <<"K_F18", "KeyF18">>, <<"K_F19", "KeyF19">>, <<"K_F20", "KeyF20">>,
       <<"K_F21", "KeyF21">>, <<"K_F22", "KeyF22">>, <<"K_F23", "KeyF23">>,
       <<"K_F24", "KeyF24">>, <<"K_AC_BACK", "KeyAppBack">>, <<"K_AC_FORWARD", "KeyAppForward">> >>

\* The cases of the fallback switch (on the scancode) in sdl2KeyEventToImguiKey.
sdl2ScancodeCases ==
    << <<"SCANCODE_GRAVE", "KeyGraveAccent">>, <<"SCANCODE_MINUS", "KeyMinus">>, <<"SCANCODE_EQUALS", "KeyEqual">>,
       <<"SCANCODE_LEFTBRACKET", "KeyLeftBracket">>, <<"SCANCODE_RIGHTBRACKET", "KeyRightBracket">>, <<"SCANCODE_NONUSBACKSLASH", "KeyOem102">>,
       <<"SCANCODE_BACKSLASH", "KeyBackslash">>, <<"SCANCODE_SEMICOLON", "KeySemicolon">>, <<"SCANCODE_APOSTROPHE", "KeyApostrophe">>,
       <<"SCANCODE_COMMA", "KeyComma">>, <<"SCANCODE_PERIOD", "KeyPeriod">>, <<"SCANCODE_SLASH", "KeySlash">> >>


\* glfwKeyEventToImguiKey: one switch on the key with a default; the scancode
\* argument is not read.
glfwKeyEventToImguiKey(key, scancode) ==
    LET r == SwitchOn(glfwKeyCases, key)
    IN  IF r # NoCase THEN r ELSE KeyNone

\* Mutant: the fallback switch on the scancode is skipped.
sdl2KeyEventToImguiKey_NoFallback(keycode, scancode) ==
    LET r == SwitchOn(sdl2KeycodeCases, keycode)
    IN  IF r # NoCase THEN r ELSE KeyNone

\* Mutant: the switch on the scancode comes first.
sdl2KeyEventToImguiKey_ScancodeFirst(keycode, scancode) ==
    LET r1 == SwitchOn(sdl2KeycodeCases, keycode)
        r2 == SwitchOn(sdl2ScancodeCases, scancode)
    IN  IF r2 # NoCase THEN r2
        ELSE IF r1 # NoCase THEN r1
        ELSE KeyNone

\* sdl2KeyEventToImguiKey: the switch on the keycode returns when a case
\* matches; otherwise the switch on the scancode returns when a case matches;
\* otherwise imgui.KeyNone.
sdl2KeyEventToImguiKey(keycode, scancode) ==
    LET r1 == SwitchOn(sdl2KeycodeCases, keycode)
        r2 == SwitchOn(sdl2ScancodeCases, scancode)
    IN  IF r1 # NoCase THEN r1
        ELSE IF r2 # NoCase THEN r2
        ELSE KeyNone

\* The inputs the translations are applied to: every key that has a case, and
\* keys of the libraries that have none (for SDL2 these include the keycodes
\* whose cases are commented out in the source).
GLFWKeys == CaseLabels(glfwKeyCases) \cup {"KeyUnknown", "KeyF25"}

SDLKeycodes ==
    CaseLabels(sdl2KeycodeCases) \cup
    {"K_UNKNOWN", "K_QUOTE", "K_MINUS", "K_SLASH", "K_EQUALS", "K_LEFTBRACKET",
     "K_BACKSLASH", "K_RIGHTBRACKET", "K_BACKQUOTE"}

SDLScancodes ==
    CaseLabels(sdl2ScancodeCases) \cup {"SCANCODE_UNKNOWN", "SCANCODE_A", "SCANCODE_F1"}

GLFWScancodes == {0}

(***************************************************************************)
(* Specification of the key translations: one input, one call.             *)
(***************************************************************************)

KeysIdle ==
    /\ keyLib = "none"
    /\ keyArg = <<>>
    /\ keyResult = "unset"

KeysInit ==
    /\ keyResult = "unset"
    /\ \/ /\ keyLib = "glfw"
          /\ keyArg \in GLFWKeys \X GLFWScancodes
       \/ /\ keyLib = "sdl"
          /\ keyArg \in SDLKeycodes \X SDLScancodes

GlfwTranslate ==
    /\ keyLib = "glfw"
    /\ keyResult = "unset"
    /\ keyResult' = glfwKeyEventToImguiKey(keyArg[1], keyArg[2])
    /\ UNCHANGED <<keyLib, keyArg>>

Sdl2Translate ==
    /\ keyLib = "sdl"
    /\ keyResult = "unset"
    /\ keyResult' = sdl2KeyEventToImguiKey(keyArg[1], keyArg[2])
    /\ UNCHANGED <<keyLib, keyArg>>

(***************************************************************************)
(* The example programs: main, the platform bindings and the windowing     *)
(* libraries under them.                                                   *)
(***************************************************************************)

VARIABLES
    tag,          \* the build tag: "sdl" or "glfw" (which main, which platform)
    clientAPI,    \* the client API string handed to the platform constructor
    pc,           \* main's position
    exitStatus,   \* "running", "0" (main returned) or "-1" (os.Exit(-1))
    deferred,     \* main's stack of deferred calls, latest first
    imguiCtx,     \* the imgui context: "none", "live" or "destroyed"
    platform,     \* the *SDL or *GLFW main holds: Nil or the object's fields
    renderer,     \* the OpenGL2 renderer main holds: "nil", "live" or "disposed"
    lib,          \* the state of the windowing library (SDL2 or GLFW)
    burst,        \* the events the window system delivers in one go
    pending,      \* the library's event queue when the last ProcessEvents started
    queue,        \* the library's event queue when the last ProcessEvents returned
    op,           \* the operation the last step executed ("env" for the environment)
    ctor,         \* the last constructor call: what failed in it and what it returned
    ioCalls,      \* the imgui.IO calls the last step made, in order
    processed,    \* the events the last ProcessEvents handed to the platform, in order
    polled,       \* the hardware sample the last NewFrame read
    quitSeen,     \* history: a QUIT event was handed to SDL.processEvent
    pressedSince, \* history: buttons with a press event handled since the last NewFrame
    pressedAtFrame \* history: pressedSince as it was when the last NewFrame started

progVars ==
    <<tag, clientAPI, pc, exitStatus, deferred, imguiCtx, platform, renderer, lib,
      burst, pending, queue, op, ctor, ioCalls, processed, polled, quitSeen, pressedSince,
      pressedAtFrame>>

\* A nil pointer or interface value.
Nil == [nil |-> TRUE]

\* SDLClientAPI / GLFWClientAPI constants, and a value that is neither.
ClientAPIOpenGL2 == "OpenGL2"
ClientAPIOpenGL3 == "OpenGL3"
ClientAPIs == {ClientAPIOpenGL2, ClientAPIOpenGL3, "Vulkan"}

\* ErrUnsupportedClientAPI: a package-level error value.
ErrUnsupportedClientAPI == "ErrUnsupportedClientAPI"

\* Indices of the mouse buttons in the platforms' latch arrays.
mouseButtonPrimary == 0
mouseButtonSecondary == 1
mouseButtonTertiary == 2
mouseButtonCount == 3

ButtonIndices == 0..(mouseButtonCount - 1)

\* The windowing library before anything was called.
LibInit ==
    [ osThreadLocked     |-> FALSE,
      inited             |-> FALSE,   \* Init succeeded and no Quit/Terminate since
      initCalls          |-> 0,
      shutdownCalls      |-> 0,       \* sdl.Quit / glfw.Terminate
      createWindowCalls  |-> 0,
      windowAlive        |-> FALSE,
      windowDestroyCalls |-> 0,
      attrs              |-> {},      \* GL attributes / window hints set
      glContextsCreated  |-> 0,       \* window.GLCreateContext successes
      glContextsDeleted  |-> 0,       \* sdl.GLDeleteContext calls
      contextCurrent     |-> FALSE,
      swapInterval       |-> 0,
      callbacks          |-> {},      \* GLFW callbacks installed on the window
      shouldClose        |-> FALSE,   \* GLFW's close flag of the window
      clipboard          |-> "" ]

\* ---- library calls, each on the library state l

LockOSThread(l) == [l EXCEPT !.osThreadLocked = TRUE]

\* sdl.Init / glfw.Init; ok is whether the library reports success.
LibInitCall(l, ok) ==
    [l EXCEPT !.initCalls = @ + 1, !.inited = IF ok THEN TRUE ELSE @]

\* sdl.Quit / glfw.Terminate
LibShutdown(l) ==
    [l EXCEPT !.shutdownCalls = @ + 1, !.inited = FALSE]

\* sdl.CreateWindow / glfw.CreateWindow
LibCreateWindow(l, ok) ==
    [l EXCEPT !.createWindowCalls = @ + 1, !.windowAlive = IF ok THEN TRUE ELSE @]

\* window.Destroy
WindowDestroy(l) ==
    [l EXCEPT !.windowDestroyCalls = @ + 1, !.windowAlive = FALSE,
              !.contextCurrent = FALSE]

\* sdl.GLSetAttribute / glfw.WindowHint
SetAttr(l, name, value) == [l EXCEPT !.attrs = @ \cup {<<name, value>>}]

\* window.GLCreateContext
GLCreateContext(l, ok) ==
    [l EXCEPT !.glContextsCreated = IF ok THEN @ + 1 ELSE @]

\* window.GLMakeCurrent / window.MakeContextCurrent
MakeCurrent(l, ok) == [l EXCEPT !.contextCurrent = IF ok THEN TRUE ELSE @]

SetSwapInterval(l, n) == [l EXCEPT !.swapInterval = n]

(***************************************************************************)
(* The SDL2 platform.                                                      *)
(***************************************************************************)

\* The library calls of NewSDL that can fail, in the order NewSDL makes them.
SDLFailPoints == {"none", "Init", "CreateWindow", "GLCreateContext", "GLMakeCurrent"}

\* Mutant: Dispose destroys the window and leaves the library initialised.
SDL_Dispose_NoQuit(p, l) ==
    LET l1 == IF p.window # "nil" THEN WindowDestroy(l) ELSE l
        p1 == IF p.window # "nil" THEN [p EXCEPT !.window = "nil"] ELSE p
    IN  [platform |-> p1, lib |-> l1]

\* SDL.Dispose: destroy the window when there is one, then sdl.Quit.
\* Returns the object's fields and the library state.
SDL_Dispose(p, l) ==
    LET l1 == IF p.window # "nil" THEN WindowDestroy(l) ELSE l
        p1 == IF p.window # "nil" THEN [p EXCEPT !.window = "nil"] ELSE p
    IN  [platform |-> p1, lib |-> LibShutdown(l1)]

\* The GL attributes NewSDL sets for a supported client API.
SDLSetClientAttrs(l, api) ==
    IF api = ClientAPIOpenGL2
    THEN SetAttr(SetAttr(l, "GL_CONTEXT_MAJOR_VERSION", 2), "GL_CONTEXT_MINOR_VERSION", 1)
    ELSE SetAttr(SetAttr(SetAttr(SetAttr(l,
            "GL_CONTEXT_MAJOR_VERSION", 3),
            "GL_CONTEXT_MINOR_VERSION", 2),
            "GL_CONTEXT_FLAGS", "GL_CONTEXT_FORWARD_COMPATIBLE_FLAG"),
            "GL_CONTEXT_PROFILE_MASK", "GL_CONTEXT_PROFILE_CORE")

SDLSetBufferAttrs(l) ==
    SetAttr(SetAttr(SetAttr(l, "GL_DOUBLEBUFFER", 1), "GL_DEPTH_SIZE", 24),
            "GL_STENCIL_SIZE", 8)

\* NewSDL(io, clientAPI) on library state l0, where fail names the first
\* library call that reports an error.  Returns what NewSDL returns (the
\* platform or "nil", the error or "nil") and the library state it leaves.
NewSDL(l0, api, fail) ==
    LET l1 == LibInitCall(LockOSThread(l0), fail # "Init")
        l2 == LibCreateWindow(l1, fail # "CreateWindow")
        p  == [window |-> "window", shouldStop |-> FALSE, time |-> 0,
               buttonsDown |-> [i \in ButtonIndices |-> FALSE]]
        l3 == SDLSetBufferAttrs(SDLSetClientAttrs(l2, api))
        l4 == GLCreateContext(l3, fail # "GLCreateContext")
        l5 == MakeCurrent(l4, fail # "GLMakeCurrent")
    IN  IF fail = "Init"
        THEN [platform |-> Nil, err |-> "failed to initialize SDL2", lib |-> l1]
        ELSE IF fail = "CreateWindow"
        THEN [platform |-> Nil, err |-> "failed to create window",
              lib |-> LibShutdown(l2)]
        ELSE IF api \notin {ClientAPIOpenGL2, ClientAPIOpenGL3}
        THEN [platform |-> Nil, err |-> ErrUnsupportedClientAPI,
              lib |-> SDL_Dispose(p, l2).lib]
        ELSE IF fail = "GLCreateContext"
        THEN [platform |-> Nil, err |-> "failed to create OpenGL context",
              lib |-> SDL_Dispose(p, l4).lib]
        ELSE IF fail = "GLMakeCurrent"
        THEN [platform |-> Nil, err |-> "failed to set current OpenGL context",
              lib |-> SDL_Dispose(p, l5).lib]
        ELSE [platform |-> p, err |-> "nil", lib |-> SetSwapInterval(l5, 1)]

\* SDL.ShouldStop
SDL_ShouldStop(p) == p.shouldStop

\* ---- SDL events.  A modifier mask is the set of the KMOD bits set in it.
KMOD_CTRL  == {"KMOD_LCTRL", "KMOD_RCTRL"}
KMOD_SHIFT == {"KMOD_LSHIFT", "KMOD_RSHIFT"}
KMOD_ALT   == {"KMOD_LALT", "KMOD_RALT"}
KMOD_GUI   == {"KMOD_LGUI", "KMOD_RGUI"}

\* mask & bits != 0
AnyBit(mask, bits) == (mask \cap bits) # {}

IoCall3(name, a, b) == <<name, a, b>>

\* Mutant: Shift and Ctrl are reported in the other order.
sdl2SetImguiModKey_Swapped(mod) ==
    << IoCall3("AddKeyEvent", "KeyModShift", AnyBit(mod, KMOD_SHIFT)),
       IoCall3("AddKeyEvent", "KeyModCtrl", AnyBit(mod, KMOD_CTRL)),
       IoCall3("AddKeyEvent", "KeyModAlt", AnyBit(mod, KMOD_ALT)),
       IoCall3("AddKeyEvent", "KeyModSuper", AnyBit(mod, KMOD_GUI)) >>

\* sdl2SetImguiModKey: the four io.AddKeyEvent calls it makes.
sdl2SetImguiModKey(mod) ==
    << IoCall3("AddKeyEvent", "KeyModCtrl", AnyBit(mod, KMOD_CTRL)),
       IoCall3("AddKeyEvent", "KeyModShift", AnyBit(mod, KMOD_SHIFT)),
       IoCall3("AddKeyEvent", "KeyModAlt", AnyBit(mod, KMOD_ALT)),
       IoCall3("AddKeyEvent", "KeyModSuper", AnyBit(mod, KMOD_GUI)) >>

\* Mutant: the wheel amount itself is forwarded.
WheelDelta_Amount(amount) == amount

\* The sign computed for a wheel amount: deltaX++ / deltaX-- / nothing.
WheelDelta(amount) == IF amount > 0 THEN 1 ELSE IF amount < 0 THEN -1 ELSE 0

\* Mutant: the QUIT case is missing.
SDL_processEvent_NoQuit(p, event) ==
    CASE event.type = "MOUSEWHEEL" ->
           [platform |-> p,
            calls |-> << IoCall3("AddMouseWheelDelta",
                                 WheelDelta(event.X), WheelDelta(event.Y)) >>]
      [] event.type = "MOUSEBUTTONDOWN" ->
           [platform |->
               CASE event.Button = "BUTTON_LEFT" ->
                      [p EXCEPT !.buttonsDown[mouseButtonPrimary] = TRUE]
                 [] event.Button = "BUTTON_RIGHT" ->
                      [p EXCEPT !.buttonsDown[mouseButtonSecondary] = TRUE]
                 [] event.Button = "BUTTON_MIDDLE" ->
                      [p EXCEPT !.buttonsDown[mouseButtonTertiary] = TRUE]
                 [] OTHER -> p,
            calls |-> <<>>]
      [] event.type = "TEXTINPUT" ->
           [platform |-> p, calls |-> << <<"AddInputCharacters", event.Text>> >>]
      [] event.type = "KEYDOWN" ->
           [platform |-> p,
            calls |-> << IoCall3("AddKeyEvent",
                                 sdl2KeyEventToImguiKey(event.Sym, event.Scancode), TRUE) >>
                      \o sdl2SetImguiModKey(event.Mod)]
      [] event.type = "KEYUP" ->
           [platform |-> p,
            calls |-> << IoCall3("AddKeyEvent",
                                 sdl2KeyEventToImguiKey(event.Sym, event.Scancode), FALSE) >>
                      \o sdl2SetImguiModKey(event.Mod)]
      [] OTHER -> [platform |-> p, calls |-> <<>>]

\* SDL.processEvent: the object's fields afterwards and the io calls made.
SDL_processEvent(p, event) ==
    CASE event.type = "QUIT" ->
           [platform |-> [p EXCEPT !.shouldStop = TRUE], calls |-> <<>>]
      [] event.type = "MOUSEWHEEL" ->
           [platform |-> p,
            calls |-> << IoCall3("AddMouseWheelDelta",
                                 WheelDelta(event.X), WheelDelta(event.Y)) >>]
      [] event.type = "MOUSEBUTTONDOWN" ->
           [platform |->
               CASE event.Button = "BUTTON_LEFT" ->
                      [p EXCEPT !.buttonsDown[mouseButtonPrimary] = TRUE]
                 [] event.Button = "BUTTON_RIGHT" ->
                      [p EXCEPT !.buttonsDown[mouseButtonSecondary] = TRUE]
                 [] event.Button = "BUTTON_MIDDLE" ->
                      [p EXCEPT !.buttonsDown[mouseButtonTertiary] = TRUE]
                 [] OTHER -> p,
            calls |-> <<>>]
      [] event.type = "TEXTINPUT" ->
           [platform |-> p, calls |-> << <<"AddInputCharacters", event.Text>> >>]
      [] event.type = "KEYDOWN" ->
           [platform |-> p,
            calls |-> << IoCall3("AddKeyEvent",
                                 sdl2KeyEventToImguiKey(event.Sym, event.Scancode), TRUE) >>
                      \o sdl2SetImguiModKey(event.Mod)]
      [] event.type = "KEYUP" ->
           [platform |-> p,
            calls |-> << IoCall3("AddKeyEvent",
                                 sdl2KeyEventToImguiKey(event.Sym, event.Scancode), FALSE) >>
                      \o sdl2SetImguiModKey(event.Mod)]
      [] OTHER -> [platform |-> p, calls |-> <<>>]

\* sdl.PollEvent on queue q: the event returned (Nil when none is pending)
\* and the queue left.
PollEvent(q) ==
    IF q = <<>> THEN [event |-> Nil, rest |-> <<>>]
    ELSE [event |-> Head(q), rest |-> Tail(q)]

\* The loop of SDL.ProcessEvents from object p and queue q, having made the
\* io calls `calls` and handed the events `seen` to processEvent so far.
RECURSIVE SDL_ProcessLoop(_, _, _, _)
SDL_ProcessLoop(p, q, calls, seen) ==
    LET polledEv == PollEvent(q)
    IN  IF polledEv.event = Nil
        THEN [platform |-> p, queue |-> polledEv.rest, calls |-> calls, seen |-> seen]
        ELSE LET r == SDL_processEvent(p, polledEv.event)
             IN  SDL_ProcessLoop(r.platform, polledEv.rest, calls \o r.calls,
                                 Append(seen, polledEv.event))

\* Mutant: one event is polled and processed per call (an if, not a loop).
SDL_ProcessEvents_OnlyFirst(p, q) ==
    LET polledEv == PollEvent(q)
    IN  IF polledEv.event = Nil
        THEN [platform |-> p, queue |-> polledEv.rest, calls |-> <<>>, seen |-> <<>>]
        ELSE LET r == SDL_processEvent(p, polledEv.event)
             IN  [platform |-> r.platform, queue |-> polledEv.rest, calls |-> r.calls,
                  seen |-> <<polledEv.event>>]

\* SDL.ProcessEvents
SDL_ProcessEvents(p, q) == SDL_ProcessLoop(p, q, <<>>, <<>>)

\* The buttons SDL.NewFrame loops over, in order; entry i+1 belongs to latch i.
SDLFrameButtons == <<"BUTTON_LEFT", "BUTTON_RIGHT", "BUTTON_MIDDLE">>

\* sdl.Button(button): the mask holding that button's bit.
SDLButtonMask(button) == {button}

\* The SetDeltaTime call of SDL.NewFrame for the counter value read.
SDL_DeltaTimeCall(p, currentTime) ==
    IF p.time > 0
    THEN <<"SetDeltaTime", <<"counter-difference", currentTime - p.time>>>>
    ELSE <<"SetDeltaTime", "fallbackDelta">>

\* Mutant: the latch is not consulted, only the polled button state.
SDL_NewFrame_NoLatch(p, sample) ==
    [platform |-> [p EXCEPT !.time = sample.counter,
                            !.buttonsDown = [i \in ButtonIndices |-> FALSE]],
     calls |->
        << <<"SetDisplaySize", sample.size>>,
           SDL_DeltaTimeCall(p, sample.counter),
           <<"SetMousePosition", sample.pos>> >>
        \o [k \in 1..Len(SDLFrameButtons) |->
              IoCall3("SetMouseButtonDown", k - 1,
                      AnyBit(sample.state, SDLButtonMask(SDLFrameButtons[k])))]]

\* SDL.NewFrame.  sample is what the library reports during the call: the
\* window size, the performance counter, the mouse position and button mask.
SDL_NewFrame(p, sample) ==
    [platform |-> [p EXCEPT !.time = sample.counter,
                            !.buttonsDown = [i \in ButtonIndices |-> FALSE]],
     calls |->
        << <<"SetDisplaySize", sample.size>>,
           SDL_DeltaTimeCall(p, sample.counter),
           <<"SetMousePosition", sample.pos>> >>
        \o [k \in 1..Len(SDLFrameButtons) |->
              IoCall3("SetMouseButtonDown", k - 1,
                      p.buttonsDown[k - 1]
                      \/ AnyBit(sample.state, SDLButtonMask(SDLFrameButtons[k])))]]

\* SDL.ClipboardText / SDL.SetClipboardText on the library state.
SDL_ClipboardText(l) == l.clipboard
SDL_SetClipboardText(l, text) == [l EXCEPT !.clipboard = text]

(***************************************************************************)
(* The GLFW platform.                                                      *)
(***************************************************************************)

GLFWFailPoints == {"none", "Init", "CreateWindow"}

GLFWCallbackNames == {"mouseButtonChange", "mouseScrollChange", "keyChange", "charChange"}

\* GLFW.installCallbacks
GLFW_installCallbacks(l) == [l EXCEPT !.callbacks = GLFWCallbackNames]

GLFWSetClientHints(l, api) ==
    IF api = ClientAPIOpenGL2
    THEN SetAttr(SetAttr(l, "ContextVersionMajor", 2), "ContextVersionMinor", 1)
    ELSE SetAttr(SetAttr(SetAttr(SetAttr(l,
            "ContextVersionMajor", 3),
            "ContextVersionMinor", 2),
            "OpenGLProfile", "OpenGLCoreProfile"),
            "OpenGLForwardCompatible", 1)

\* Mutant: the client API is checked after the window was created.
NewGLFW_LateCheck(l0, api, fail) ==
    LET l1 == LibInitCall(LockOSThread(l0), fail # "Init")
        l3 == LibCreateWindow(l1, fail # "CreateWindow")
    IN  IF fail = "Init"
        THEN [platform |-> Nil, err |-> "failed to initialize glfw", lib |-> l1]
        ELSE IF fail = "CreateWindow"
        THEN [platform |-> Nil, err |-> "failed to create window",
              lib |-> LibShutdown(l3)]
        ELSE IF api \notin {ClientAPIOpenGL2, ClientAPIOpenGL3}
        THEN [platform |-> Nil, err |-> ErrUnsupportedClientAPI,
              lib |-> LibShutdown(l3)]
        ELSE [platform |->
                 [window |-> "window", time |-> 0,
                  mouseJustPressed |-> [i \in 0..2 |-> FALSE]],
              err |-> "nil",
              lib |-> GLFW_installCallbacks(
                         SetSwapInterval(MakeCurrent(GLFWSetClientHints(l3, api), TRUE), 1))]

\* NewGLFW(io, clientAPI) on library state l0, where fail names the first
\* library call that reports an error.
NewGLFW(l0, api, fail) ==
    LET l1 == LibInitCall(LockOSThread(l0), fail # "Init")
        l2 == GLFWSetClientHints(l1, api)
        l3 == LibCreateWindow(l2, fail # "CreateWindow")
    IN  IF fail = "Init"
        THEN [platform |-> Nil, err |-> "failed to initialize glfw", lib |-> l1]
        ELSE IF api \notin {ClientAPIOpenGL2, ClientAPIOpenGL3}
        THEN [platform |-> Nil, err |-> ErrUnsupportedClientAPI,
              lib |-> LibShutdown(l1)]
        ELSE IF fail = "CreateWindow"
        THEN [platform |-> Nil, err |-> "failed to create window",
              lib |-> LibShutdown(l3)]
        ELSE [platform |->
                 [window |-> "window", time |-> 0,
                  mouseJustPressed |-> [i \in 0..2 |-> FALSE]],
              err |-> "nil",
              lib |-> GLFW_installCallbacks(SetSwapInterval(MakeCurrent(l3, TRUE), 1))]

\* GLFW.Dispose: window.Destroy, then glfw.Terminate.
GLFW_Dispose(p, l) ==
    [platform |-> p, lib |-> LibShutdown(WindowDestroy(l))]

\* GLFW.ShouldStop: window.ShouldClose()
GLFW_ShouldStop(l) == l.shouldClose

\* glfwButtonIndexByID: the raw buttons that have an entry, and their index.
glfwButtonIndexByID ==
    [b \in {"MouseButton1", "MouseButton2", "MouseButton3"} |->
        CASE b = "MouseButton1" -> mouseButtonPrimary
          [] b = "MouseButton2" -> mouseButtonSecondary
          [] b = "MouseButton3" -> mouseButtonTertiary]

\* glfwButtonIDByIndex
glfwButtonIDByIndex ==
    [i \in {mouseButtonPrimary, mouseButtonSecondary, mouseButtonTertiary} |->
        CASE i = mouseButtonPrimary -> "MouseButton1"
          [] i = mouseButtonSecondary -> "MouseButton2"
          [] i = mouseButtonTertiary -> "MouseButton3"]

\* GLFW.mouseButtonChange
GLFW_mouseButtonChange(p, rawButton, action, mods) ==
    LET known == rawButton \in DOMAIN glfwButtonIndexByID
    IN  [platform |->
            IF known /\ action = "Press"
            THEN [p EXCEPT !.mouseJustPressed[glfwButtonIndexByID[rawButton]] = TRUE]
            ELSE p,
         calls |-> <<>>]

\* float32(x) of a float64 x, for whole numbers: a float32 has 24 significant
\* bits, so a magnitude below 2^24 is kept and a larger one is rounded to the
\* nearest multiple of its unit in the last place, ties to the even multiple.
RECURSIVE Float32Ulp(_)
Float32Ulp(a) == IF a < 16777216 THEN 1 ELSE 2 * Float32Ulp(a \div 2)

Float32Round(a) ==
    LET q   == Float32Ulp(a)
        lo  == (a \div q) * q
        rem == a - lo
    IN  IF 2 * rem < q THEN lo
        ELSE IF 2 * rem > q THEN lo + q
        ELSE IF (lo \div q) % 2 = 0 THEN lo ELSE lo + q

Float32(x) == IF x < 0 THEN 0 - Float32Round(0 - x) ELSE Float32Round(x)

\* GLFW.mouseScrollChange
GLFW_mouseScrollChange(p, x, y) ==
    [platform |-> p, calls |-> << IoCall3("AddMouseWheelDelta", Float32(x), Float32(y)) >>]

\* glfw.ModControl etc.: a modifier mask is the set of the bits set in it.
ModControl == {"ModControl"}
ModShift   == {"ModShift"}
ModAlt     == {"ModAlt"}
ModSuper   == {"ModSuper"}

\* glfwSetImguiModKey
glfwSetImguiModKey(mod) ==
    << IoCall3("AddKeyEvent", "KeyModCtrl", AnyBit(mod, ModControl)),
       IoCall3("AddKeyEvent", "KeyModShift", AnyBit(mod, ModShift)),
       IoCall3("AddKeyEvent", "KeyModAlt", AnyBit(mod, ModAlt)),
       IoCall3("AddKeyEvent", "KeyModSuper", AnyBit(mod, ModSuper)) >>

\* Mutant: every action but Release forwards the key as down.
GLFW_keyChange_RepeatIsPress(p, key, scancode, action, mods) ==
    LET k == glfwKeyEventToImguiKey(key, scancode)
    IN  [platform |-> p,
         calls |->
            (IF action # "Release" THEN << IoCall3("AddKeyEvent", k, TRUE) >> ELSE <<>>)
            \o (IF action = "Release" THEN << IoCall3("AddKeyEvent", k, FALSE) >> ELSE <<>>)
            \o glfwSetImguiModKey(mods)]

\* GLFW.keyChange
GLFW_keyChange(p, key, scancode, action, mods) ==
    LET k == glfwKeyEventToImguiKey(key, scancode)
    IN  [platform |-> p,
         calls |->
            (IF action = "Press" THEN << IoCall3("AddKeyEvent", k, TRUE) >> ELSE <<>>)
            \o (IF action = "Release" THEN << IoCall3("AddKeyEvent", k, FALSE) >> ELSE <<>>)
            \o glfwSetImguiModKey(mods)]

\* GLFW.charChange
GLFW_charChange(p, char) ==
    [platform |-> p, calls |-> << <<"AddInputCharacters", char>> >>]

\* The callback glfw.PollEvents invokes for one pending event.
GLFW_dispatch(p, event) ==
    CASE event.type = "mouseButton" ->
           GLFW_mouseButtonChange(p, event.button, event.action, event.mods)
      [] event.type = "scroll" -> GLFW_mouseScrollChange(p, event.x, event.y)
      [] event.type = "key" ->
           GLFW_keyChange(p, event.key, event.scancode, event.action, event.mods)
      [] event.type = "char" -> GLFW_charChange(p, event.char)
      [] OTHER -> [platform |-> p, calls |-> <<>>]

\* GLFW.ProcessEvents: glfw.PollEvents() hands every pending event to the
\* callback installed for it; a close request sets the window's close flag.
RECURSIVE GLFW_PollLoop(_, _, _, _, _)
GLFW_PollLoop(p, l, q, calls, seen) ==
    IF q = <<>>
    THEN [platform |-> p, lib |-> l, queue |-> q, calls |-> calls, seen |-> seen]
    ELSE LET ev == Head(q)
             r  == GLFW_dispatch(p, ev)
             l1 == IF ev.type = "close" THEN [l EXCEPT !.shouldClose = TRUE] ELSE l
         IN  GLFW_PollLoop(r.platform, l1, Tail(q), calls \o r.calls, Append(seen, ev))

GLFW_ProcessEvents(p, l, q) == GLFW_PollLoop(p, l, q, <<>>, <<>>)

\* The SetDeltaTime call of GLFW.NewFrame, if it makes one.
GLFW_DeltaTimeCalls(p, currentTime) ==
    IF p.time > 0
    THEN << <<"SetDeltaTime", <<"time-difference", currentTime - p.time>>>> >>
    ELSE <<>>

\* GLFW.NewFrame.  sample is what the library reports during the call: the
\* window size, the time, the focus attribute, the cursor position and the
\* set of buttons whose state is glfw.Press.
GLFW_NewFrame(p, sample) ==
    [platform |-> [p EXCEPT !.time = sample.counter,
                            !.mouseJustPressed = [i \in 0..2 |-> FALSE]],
     calls |->
        << <<"SetDisplaySize", sample.size>> >>
        \o GLFW_DeltaTimeCalls(p, sample.counter)
        \o << IF sample.focused
              THEN <<"SetMousePosition", sample.pos>>
              ELSE <<"SetMousePosition", <<"-MaxFloat32", "-MaxFloat32">>>> >>
        \o [k \in 1..3 |->
              IoCall3("SetMouseButtonDown", k - 1,
                      p.mouseJustPressed[k - 1]
                      \/ glfwButtonIDByIndex[k - 1] \in sample.state)]]

\* GLFW.ClipboardText / GLFW.SetClipboardText
GLFW_ClipboardText(l) == l.clipboard
GLFW_SetClipboardText(l, text) == [l EXCEPT !.clipboard = text]

(***************************************************************************)
(* The OpenGL3 renderer and the part of the OpenGL context it touches.     *)
(***************************************************************************)

VARIABLES
    gl,           \* the state of the OpenGL context
    r3,           \* the *OpenGL3 the caller holds: Nil or the object's fields
    fontTexID,    \* the texture ID stored in the imgui font atlas
    glOp,         \* the renderer operation the last step executed
    glLog,        \* the graphics calls and user callbacks of the last step, in order
    glBefore,     \* the state of the OpenGL context when the last step started
    renderArgs,   \* the arguments of the last Render call
    frame         \* the draw data the GUI library produces for a frame

glVars == <<gl, r3, fontTexID, glOp, glLog, glBefore, renderArgs, frame>>

\* Texture units of the context: TEXTURE0 and TEXTURE1.
TextureUnits == {0, 1}

EnableCaps == {"BLEND", "CULL_FACE", "DEPTH_TEST", "SCISSOR_TEST"}

\* The smallest unused object name (names are positive).
RECURSIVE FreshFrom(_, _)
FreshFrom(n, used) == IF n \in used THEN FreshFrom(n + 1, used) ELSE n

FreshName(used) == FreshFrom(1, used)

\* ---- a computation in progress: the context state s and the calls logged so far
Work(s) == [s |-> s, log |-> <<>>]

Logged(w, entry) == [w EXCEPT !.log = Append(@, entry)]

Did(w, entry, s1) == [s |-> s1, log |-> Append(w.log, entry)]

\* `result`, with the stages it is computed from evaluated first, in the order
\* of the program: a long run of calls is computed stage by stage.
After(stages, result) == IF stages = <<>> THEN result ELSE result

\* gl.GetIntegerv(pname, ...): the value(s) read from state s
QueryInt(s, pname) ==
    CASE pname = "ACTIVE_TEXTURE" -> s.activeTexture
      [] pname = "CURRENT_PROGRAM" -> s.program
      [] pname = "TEXTURE_BINDING_2D" -> s.texture2D[s.activeTexture]
      [] pname = "SAMPLER_BINDING" -> s.sampler[s.activeTexture]
      [] pname = "ARRAY_BUFFER_BINDING" -> s.arrayBuffer
      [] pname = "ELEMENT_ARRAY_BUFFER_BINDING" -> s.vaoElementBuffer[s.vertexArray]
      [] pname = "VERTEX_ARRAY_BINDING" -> s.vertexArray
      [] pname = "POLYGON_MODE" -> <<s.polygonMode.front, s.polygonMode.back>>
      [] pname = "VIEWPORT" -> s.viewport
      [] pname = "SCISSOR_BOX" -> s.scissorBox
      [] pname = "BLEND_SRC_RGB" -> s.blendSrcRGB
      [] pname = "BLEND_DST_RGB" -> s.blendDstRGB
      [] pname = "BLEND_SRC_ALPHA" -> s.blendSrcAlpha
      [] pname = "BLEND_DST_ALPHA" -> s.blendDstAlpha
      [] pname = "BLEND_EQUATION_RGB" -> s.blendEquationRGB
      [] pname = "BLEND_EQUATION_ALPHA" -> s.blendEquationAlpha

\* ---- graphics calls: each logs itself and changes the context state
GetIntegerv(w, pname) == Logged(w, <<"GetIntegerv", pname>>)

IsEnabled(w, cap) == Logged(w, <<"IsEnabled", cap>>)

ActiveTexture(w, unit) ==
    Did(w, <<"ActiveTexture", unit>>, [w.s EXCEPT !.activeTexture = unit])

UseProgram(w, program) ==
    Did(w, <<"UseProgram", program>>, [w.s EXCEPT !.program = program])

\* gl.BindTexture(gl.TEXTURE_2D, texture): binds on the active texture unit
BindTexture(w, texture) ==
    Did(w, <<"BindTexture", texture>>,
        [w.s EXCEPT !.texture2D[w.s.activeTexture] = texture])

BindSampler(w, unit, sampler) ==
    Did(w, <<"BindSampler", unit, sampler>>, [w.s EXCEPT !.sampler[unit] = sampler])

BindVertexArray(w, array) ==
    Did(w, <<"BindVertexArray", array>>, [w.s EXCEPT !.vertexArray = array])

\* gl.BindBuffer: the element array binding belongs to the bound vertex array
BindBuffer(w, target, buffer) ==
    Did(w, <<"BindBuffer", target, buffer>>,
        IF target = "ARRAY_BUFFER"
        THEN [w.s EXCEPT !.arrayBuffer = buffer]
        ELSE [w.s EXCEPT !.vaoElementBuffer[w.s.vertexArray] = buffer])

Enable(w, cap) == Did(w, <<"Enable", cap>>, [w.s EXCEPT !.enabled[cap] = TRUE])

Disable(w, cap) == Did(w, <<"Disable", cap>>, [w.s EXCEPT !.enabled[cap] = FALSE])

SetEnabled(w, cap, on) == IF on THEN Enable(w, cap) ELSE Disable(w, cap)

BlendEquation(w, mode) ==
    Did(w, <<"BlendEquation", mode>>,
        [w.s EXCEPT !.blendEquationRGB = mode, !.blendEquationAlpha = mode])

BlendEquationSeparate(w, modeRGB, modeAlpha) ==
    Did(w, <<"BlendEquationSeparate", modeRGB, modeAlpha>>,
        [w.s EXCEPT !.blendEquationRGB = modeRGB, !.blendEquationAlpha = modeAlpha])

BlendFunc(w, sfactor, dfactor) ==
    Did(w, <<"BlendFunc", sfactor, dfactor>>,
        [w.s EXCEPT !.blendSrcRGB = sfactor, !.blendSrcAlpha = sfactor,
                    !.blendDstRGB = dfactor, !.blendDstAlpha = dfactor])

BlendFuncSeparate(w, srcRGB, dstRGB, srcAlpha, dstAlpha) ==
    Did(w, <<"BlendFuncSeparate", srcRGB, dstRGB, srcAlpha, dstAlpha>>,
        [w.s EXCEPT !.blendSrcRGB = srcRGB, !.blendDstRGB = dstRGB,
                    !.blendSrcAlpha = srcAlpha, !.blendDstAlpha = dstAlpha])

\* gl.PolygonMode(gl.FRONT_AND_BACK, mode)
PolygonMode(w, mode) ==
    Did(w, <<"PolygonMode", "FRONT_AND_BACK", mode>>,
        [w.s EXCEPT !.polygonMode = [front |-> mode, back |-> mode]])

Viewport(w, box) == Did(w, <<"Viewport", box>>, [w.s EXCEPT !.viewport = box])

Scissor(w, box) == Did(w, <<"Scissor", box>>, [w.s EXCEPT !.scissorBox = box])

\* gl.GenVertexArrays(1, &h): the name generated in state s
GenName(s, kind) == FreshName(s.objects[kind])

GenObject(w, call, kind) ==
    Did(w, <<call, GenName(w.s, kind)>>,
        [w.s EXCEPT !.objects[kind] = @ \cup {GenName(w.s, kind)}])

\* A vertex array object starts with no element array buffer bound.
GenVertexArrays(w) ==
    LET name == GenName(w.s, "vertexArray")
        w1 == GenObject(w, "GenVertexArrays", "vertexArray")
    IN  [w1 EXCEPT !.s.vaoElementBuffer =
            [v \in (DOMAIN @) \cup {name} |-> IF v = name THEN 0 ELSE @[v]]]

\* gl.DeleteVertexArrays(1, &h): a bound vertex array that is deleted leaves
\* the default vertex array (0) bound.
DeleteVertexArrays(w, array) ==
    Did(w, <<"DeleteVertexArrays", array>>,
        [w.s EXCEPT
            !.objects["vertexArray"] = @ \ {array},
            !.vertexArray = IF @ = array THEN 0 ELSE @,
            !.vaoElementBuffer =
                [v \in (DOMAIN @) \ (IF array = 0 THEN {} ELSE {array}) |-> @[v]]])

\* gl.DeleteBuffers(1, &h): bindings of the deleted buffer revert to 0
DeleteBuffers(w, buffer) ==
    Did(w, <<"DeleteBuffers", buffer>>,
        [w.s EXCEPT
            !.objects["buffer"] = @ \ {buffer},
            !.arrayBuffer = IF @ = buffer THEN 0 ELSE @,
            !.vaoElementBuffer[w.s.vertexArray] = IF @ = buffer THEN 0 ELSE @])

\* gl.DeleteTextures(1, &h): bindings of the deleted texture revert to 0
DeleteTextures(w, texture) ==
    Did(w, <<"DeleteTextures", texture>>,
        [w.s EXCEPT
            !.objects["texture"] = @ \ {texture},
            !.texture2D = [u \in DOMAIN @ |-> IF @[u] = texture THEN 0 ELSE @[u]]])

\* gl.AttachShader / gl.DetachShader
AttachShader(w, program, shader) ==
    Did(w, <<"AttachShader", program, shader>>,
        [w.s EXCEPT !.attached = @ \cup {<<program, shader>>}])

DetachShader(w, program, shader) ==
    Did(w, <<"DetachShader", program, shader>>,
        [w.s EXCEPT !.attached = @ \ {<<program, shader>>}])

\* gl.DeleteShader / gl.DeleteProgram (programs and shaders share their names)
DeleteShader(w, shader) ==
    Did(w, <<"DeleteShader", shader>>,
        [w.s EXCEPT !.objects["shader"] = @ \ {shader}])

DeleteProgram(w, program) ==
    Did(w, <<"DeleteProgram", program>>,
        [w.s EXCEPT !.objects["shader"] = @ \ {program}])

\* What imgui.VertexBufferLayout() and imgui.IndexBufferLayout() return.
ImguiLayout ==
    [vertexSize |-> 20, offsetPos |-> 0, offsetUV |-> 8, offsetCol |-> 16, indexSize |-> 2]

\* OpenGL3.createFontsTexture: upload the atlas, store the texture's name in
\* the atlas, restore the texture binding.
createFontsTexture(w, r) ==
    LET w1 == GetIntegerv(w, "TEXTURE_BINDING_2D")
        lastTexture == QueryInt(w.s, "TEXTURE_BINDING_2D")
        fontTexture == GenName(w1.s, "texture")
        w2 == GenObject(w1, "GenTextures", "texture")
        w3 == BindTexture(w2, fontTexture)
        w4 == Logged(Logged(Logged(Logged(w3,
                 <<"TexParameteri", "TEXTURE_MIN_FILTER", "LINEAR">>),
                 <<"TexParameteri", "TEXTURE_MAG_FILTER", "LINEAR">>),
                 <<"PixelStorei", "UNPACK_ROW_LENGTH", 0>>),
                 <<"TexImage2D", "RED">>)
        w5 == BindTexture(w4, lastTexture)
    IN  [w |-> w5, r |-> [r EXCEPT !.fontTexture = fontTexture],
         fontTexID |-> fontTexture]

\* gl.GetUniformLocation / gl.GetAttribLocation on the linked program: the
\* locations of the names the shaders declare.
UniformLocation(name) == IF name = "Texture" THEN 0 ELSE 1

AttribLocation(name) == IF name = "Position" THEN 0 ELSE IF name = "UV" THEN 1 ELSE 2

\* OpenGL3.createDeviceObjects
createDeviceObjects(w, r) ==
    LET lastTexture == QueryInt(w.s, "TEXTURE_BINDING_2D")
        lastArrayBuffer == QueryInt(w.s, "ARRAY_BUFFER_BINDING")
        lastVertexArray == QueryInt(w.s, "VERTEX_ARRAY_BINDING")
        w1 == GetIntegerv(GetIntegerv(GetIntegerv(w,
                 "TEXTURE_BINDING_2D"), "ARRAY_BUFFER_BINDING"), "VERTEX_ARRAY_BINDING")
        shaderHandle == GenName(w1.s, "shader")
        w2 == GenObject(w1, "CreateProgram", "shader")
        vertHandle == GenName(w2.s, "shader")
        w3 == GenObject(w2, "CreateShader", "shader")
        fragHandle == GenName(w3.s, "shader")
        w4 == GenObject(w3, "CreateShader", "shader")
        w5 == Logged(Logged(Logged(Logged(w4,
                 <<"ShaderSource", vertHandle>>), <<"ShaderSource", fragHandle>>),
                 <<"CompileShader", vertHandle>>), <<"CompileShader", fragHandle>>)
        w6 == AttachShader(AttachShader(w5, shaderHandle, vertHandle),
                           shaderHandle, fragHandle)
        w7 == Logged(Logged(Logged(Logged(Logged(Logged(w6,
                 <<"LinkProgram", shaderHandle>>),
                 <<"GetUniformLocation", shaderHandle, "Texture">>),
                 <<"GetUniformLocation", shaderHandle, "ProjMtx">>),
                 <<"GetAttribLocation", shaderHandle, "Position">>),
                 <<"GetAttribLocation", shaderHandle, "UV">>),
                 <<"GetAttribLocation", shaderHandle, "Color">>)
        vboHandle == GenName(w7.s, "buffer")
        w8 == GenObject(w7, "GenBuffers", "buffer")
        elementsHandle == GenName(w8.s, "buffer")
        w9 == GenObject(w8, "GenBuffers", "buffer")
        r1 == [r EXCEPT !.shaderHandle = shaderHandle,
                        !.vertHandle = vertHandle,
                        !.fragHandle = fragHandle,
                        !.attribLocationTex = UniformLocation("Texture"),
                        !.attribLocationProjMtx = UniformLocation("ProjMtx"),
                        !.attribLocationPosition = AttribLocation("Position"),
                        !.attribLocationUV = AttribLocation("UV"),
                        !.attribLocationColor = AttribLocation("Color"),
                        !.vboHandle = vboHandle,
                        !.elementsHandle = elementsHandle]
        f   == createFontsTexture(w9, r1)
        w10 == BindTexture(f.w, lastTexture)
        w11 == BindBuffer(w10, "ARRAY_BUFFER", lastArrayBuffer)
        w12 == BindVertexArray(w11, lastVertexArray)
    IN  [w |-> w12, r |-> f.r, fontTexID |-> f.fontTexID]

\* The zero value of the OpenGL3 struct with the fields NewOpenGL3 sets.
NewRendererFields ==
    [glslVersion |-> "#version 150", fontTexture |-> 0, shaderHandle |-> 0,
     vertHandle |-> 0, fragHandle |-> 0, attribLocationTex |-> 0,
     attribLocationProjMtx |-> 0, attribLocationPosition |-> 0,
     attribLocationUV |-> 0, attribLocationColor |-> 0, vboHandle |-> 0,
     elementsHandle |-> 0]

\* NewOpenGL3(io) on context state s; initOK is whether gl.Init() succeeds.
NewOpenGL3(s, initOK) ==
    IF ~initOK
    THEN [w |-> Work(s), r |-> Nil, err |-> "failed to initialize OpenGL",
          fontTexID |-> 0]
    ELSE LET c == createDeviceObjects(Work(s), NewRendererFields)
         IN  [w |-> c.w, r |-> c.r, err |-> "nil", fontTexID |-> c.fontTexID]

\* OpenGL3.PreRender
PreRender(w, clearColor) ==
    Logged(Logged(w, <<"ClearColor", clearColor>>), <<"Clear", "COLOR_BUFFER_BIT">>)

\* drawData.ScaleClipRects(scale)
ScaleClipRect(clip, scale) ==
    <<clip[1] * scale[1], clip[2] * scale[2], clip[3] * scale[1], clip[4] * scale[2]>>

ScaleCommands(cmds, scale) ==
    [j \in 1..Len(cmds) |->
        [cmds[j] EXCEPT !.clipRect = ScaleClipRect(cmds[j].clipRect, scale)]]

ScaleClipRects(drawData, scale) ==
    [i \in 1..Len(drawData) |->
        [drawData[i] EXCEPT !.commands = ScaleCommands(drawData[i].commands, scale)]]

\* cmd.CallUserCallback(list): what the callback does to the context is the
\* command's; the callbacks drawn here select a texture unit or do nothing.
CallUserCallback(w, cmd) ==
    LET w1 == Logged(w, <<"UserCallback", cmd.callback>>)
    IN  IF cmd.callback = "ActiveTexture1"
        THEN [w1 EXCEPT !.s.activeTexture = 1]
        ELSE w1

\* Mutant: a command with a user callback is drawn after its callback ran.
RenderCommand_FallThrough(w, cmd, fbHeight) ==
    LET w0 == IF cmd.callback # "none" THEN CallUserCallback(w, cmd) ELSE w
        w1 == BindTexture(w0, cmd.textureID)
        clipRect == cmd.clipRect
        w2 == Scissor(w1, <<clipRect[1], fbHeight - clipRect[4],
                            clipRect[3] - clipRect[1], clipRect[4] - clipRect[2]>>)
    IN  Logged(w2, <<"DrawElementsBaseVertexWithOffset", cmd.elementCount,
                     IF ImguiLayout.indexSize = 4 THEN "UNSIGNED_INT"
                                                  ELSE "UNSIGNED_SHORT",
                     cmd.indexOffset * ImguiLayout.indexSize, cmd.vertexOffset>>)

\* One command of a list (the body of the inner loop of Render).
RenderCommand(w, cmd, fbHeight) ==
    IF cmd.callback # "none"
    THEN CallUserCallback(w, cmd)
    ELSE LET w1 == BindTexture(w, cmd.textureID)
             clipRect == cmd.clipRect
             w2 == Scissor(w1, <<clipRect[1], fbHeight - clipRect[4],
                                 clipRect[3] - clipRect[1], clipRect[4] - clipRect[2]>>)
         IN  Logged(w2, <<"DrawElementsBaseVertexWithOffset", cmd.elementCount,
                          IF ImguiLayout.indexSize = 4 THEN "UNSIGNED_INT"
                                                       ELSE "UNSIGNED_SHORT",
                          cmd.indexOffset * ImguiLayout.indexSize, cmd.vertexOffset>>)

RECURSIVE RenderCommands(_, _, _)
RenderCommands(w, cmds, fbHeight) ==
    IF cmds = <<>> THEN w
    ELSE LET w1 == RenderCommand(w, Head(cmds), fbHeight)
         IN  After(<<w1>>, RenderCommands(w1, Tail(cmds), fbHeight))

\* One command list (the body of the outer loop of Render).
RenderList(w, r, list, fbHeight) ==
    LET w1 == BindBuffer(w, "ARRAY_BUFFER", r.vboHandle)
        w2 == Logged(w1, <<"BufferData", "ARRAY_BUFFER", list.vertexBuffer>>)
        w3 == BindBuffer(w2, "ELEMENT_ARRAY_BUFFER", r.elementsHandle)
        w4 == Logged(w3, <<"BufferData", "ELEMENT_ARRAY_BUFFER", list.indexBuffer>>)
    IN  RenderCommands(w4, list.commands, fbHeight)

RECURSIVE RenderLists(_, _, _, _)
RenderLists(w, r, lists, fbHeight) ==
    IF lists = <<>> THEN w
    ELSE LET w1 == RenderList(w, r, Head(lists), fbHeight)
         IN  After(<<w1>>, RenderLists(w1, r, Tail(lists), fbHeight))

\* The backup of the context state at the start of Render: the calls made
\* and the values read, each from the state at the time of its call.
BackupState(w) ==
    LET a1 == GetIntegerv(w, "ACTIVE_TEXTURE")
        a2 == ActiveTexture(a1, 0)
        a3 == GetIntegerv(GetIntegerv(GetIntegerv(GetIntegerv(GetIntegerv(a2,
                 "CURRENT_PROGRAM"), "TEXTURE_BINDING_2D"), "SAMPLER_BINDING"),
                 "ARRAY_BUFFER_BINDING"), "ELEMENT_ARRAY_BUFFER_BINDING")
        a4 == GetIntegerv(GetIntegerv(GetIntegerv(GetIntegerv(a3,
                 "VERTEX_ARRAY_BINDING"), "POLYGON_MODE"), "VIEWPORT"), "SCISSOR_BOX")
        a5 == GetIntegerv(GetIntegerv(GetIntegerv(GetIntegerv(GetIntegerv(GetIntegerv(a4,
                 "BLEND_SRC_RGB"), "BLEND_DST_RGB"), "BLEND_SRC_ALPHA"),
                 "BLEND_DST_ALPHA"), "BLEND_EQUATION_RGB"), "BLEND_EQUATION_ALPHA")
        a6 == IsEnabled(IsEnabled(IsEnabled(IsEnabled(a5,
                 "BLEND"), "CULL_FACE"), "DEPTH_TEST"), "SCISSOR_TEST")
    IN  [ w |-> a6,
          last |->
            [ ActiveTexture      |-> QueryInt(w.s, "ACTIVE_TEXTURE"),
              Program            |-> QueryInt(a2.s, "CURRENT_PROGRAM"),
              Texture            |-> QueryInt(a2.s, "TEXTURE_BINDING_2D"),
              Sampler            |-> QueryInt(a2.s, "SAMPLER_BINDING"),
              ArrayBuffer        |-> QueryInt(a2.s, "ARRAY_BUFFER_BINDING"),
              ElementArrayBuffer |-> QueryInt(a2.s, "ELEMENT_ARRAY_BUFFER_BINDING"),
              VertexArray        |-> QueryInt(a2.s, "VERTEX_ARRAY_BINDING"),
              PolygonMode        |-> QueryInt(a2.s, "POLYGON_MODE"),
              Viewport           |-> QueryInt(a2.s, "VIEWPORT"),
              ScissorBox         |-> QueryInt(a2.s, "SCISSOR_BOX"),
              BlendSrcRgb        |-> QueryInt(a2.s, "BLEND_SRC_RGB"),
              BlendDstRgb        |-> QueryInt(a2.s, "BLEND_DST_RGB"),
              BlendSrcAlpha      |-> QueryInt(a2.s, "BLEND_SRC_ALPHA"),
              BlendDstAlpha      |-> QueryInt(a2.s, "BLEND_DST_ALPHA"),
              BlendEquationRgb   |-> QueryInt(a2.s, "BLEND_EQUATION_RGB"),
              BlendEquationAlpha |-> QueryInt(a2.s, "BLEND_EQUATION_ALPHA"),
              EnableBlend        |-> a2.s.enabled["BLEND"],
              EnableCullFace     |-> a2.s.enabled["CULL_FACE"],
              EnableDepthTest    |-> a2.s.enabled["DEPTH_TEST"],
              EnableScissorTest  |-> a2.s.enabled["SCISSOR_TEST"] ] ]

\* The render state Render sets up, the viewport and the program.
SetupRenderState(w, r, displaySize, framebufferSize) ==
    LET b1 == Enable(w, "BLEND")
        b2 == BlendEquation(b1, "FUNC_ADD")
        b3 == BlendFunc(b2, "SRC_ALPHA", "ONE_MINUS_SRC_ALPHA")
        b4 == Disable(b3, "CULL_FACE")
        b5 == Disable(b4, "DEPTH_TEST")
        b6 == Enable(b5, "SCISSOR_TEST")
        b7 == PolygonMode(b6, "FILL")
        b8 == Viewport(b7, <<0, 0, framebufferSize[1], framebufferSize[2]>>)
        b9 == UseProgram(b8, r.shaderHandle)
        b10 == Logged(Logged(b9, <<"Uniform1i", r.attribLocationTex, 0>>),
                      <<"UniformMatrix4fv", r.attribLocationProjMtx, displaySize>>)
    IN  BindSampler(b10, 0, 0)

\* The vertex array object Render creates and describes.
SetupVertexArray(w, r) ==
    LET vaoHandle == GenName(w.s, "vertexArray")
        c1 == GenVertexArrays(w)
        c2 == BindVertexArray(c1, vaoHandle)
        c3 == BindBuffer(c2, "ARRAY_BUFFER", r.vboHandle)
        c4 == Logged(Logged(Logged(c3,
                 <<"EnableVertexAttribArray", r.attribLocationPosition>>),
                 <<"EnableVertexAttribArray", r.attribLocationUV>>),
                 <<"EnableVertexAttribArray", r.attribLocationColor>>)
        c5 == Logged(Logged(Logged(c4,
                 <<"VertexAttribPointerWithOffset", r.attribLocationPosition,
                   ImguiLayout.vertexSize, ImguiLayout.offsetPos>>),
                 <<"VertexAttribPointerWithOffset", r.attribLocationUV,
                   ImguiLayout.vertexSize, ImguiLayout.offsetUV>>),
                 <<"VertexAttribPointerWithOffset", r.attribLocationColor,
                   ImguiLayout.vertexSize, ImguiLayout.offsetCol>>)
    IN  [w |-> c5, vaoHandle |-> vaoHandle]

\* Mutant: the blend functions are restored with gl.BlendFunc, which sets the
\* alpha factors to the RGB ones.
RestoreState_BlendFunc(w, last) ==
    LET d1 == UseProgram(w, last.Program)
        d2 == BindTexture(d1, last.Texture)
        d3 == BindSampler(d2, 0, last.Sampler)
        d4 == ActiveTexture(d3, last.ActiveTexture)
        d5 == BindVertexArray(d4, last.VertexArray)
        d6 == BindBuffer(d5, "ARRAY_BUFFER", last.ArrayBuffer)
        d7 == BindBuffer(d6, "ELEMENT_ARRAY_BUFFER", last.ElementArrayBuffer)
        d8 == BlendEquationSeparate(d7, last.BlendEquationRgb, last.BlendEquationAlpha)
        d9 == BlendFunc(d8, last.BlendSrcRgb, last.BlendDstRgb)
        d10 == SetEnabled(d9, "BLEND", last.EnableBlend)
        d11 == SetEnabled(d10, "CULL_FACE", last.EnableCullFace)
        d12 == SetEnabled(d11, "DEPTH_TEST", last.EnableDepthTest)
        d13 == SetEnabled(d12, "SCISSOR_TEST", last.EnableScissorTest)
        d14 == PolygonMode(d13, last.PolygonMode[1])
        d15 == Viewport(d14, last.Viewport)
    IN  Scissor(d15, last.ScissorBox)

\* The restore of the context state at the end of Render.
RestoreState(w, last) ==
    LET d1 == UseProgram(w, last.Program)
        d2 == BindTexture(d1, last.Texture)
        d3 == BindSampler(d2, 0, last.Sampler)
        d4 == ActiveTexture(d3, last.ActiveTexture)
        d5 == BindVertexArray(d4, last.VertexArray)
        d6 == BindBuffer(d5, "ARRAY_BUFFER", last.ArrayBuffer)
        d7 == BindBuffer(d6, "ELEMENT_ARRAY_BUFFER", last.ElementArrayBuffer)
        d8 == BlendEquationSeparate(d7, last.BlendEquationRgb, last.BlendEquationAlpha)
        d9 == BlendFuncSeparate(d8, last.BlendSrcRgb, last.BlendDstRgb,
                                last.BlendSrcAlpha, last.BlendDstAlpha)
        d10 == SetEnabled(d9, "BLEND", last.EnableBlend)
        d11 == SetEnabled(d10, "CULL_FACE", last.EnableCullFace)
        d12 == SetEnabled(d11, "DEPTH_TEST", last.EnableDepthTest)
        d13 == SetEnabled(d12, "SCISSOR_TEST", last.EnableScissorTest)
        d14 == PolygonMode(d13, last.PolygonMode[1])
        d15 == Viewport(d14, last.Viewport)
    IN  Scissor(d15, last.ScissorBox)

\* Mutant: the vertex array object is not deleted.
Render_KeepVertexArray(s, r, displaySize, framebufferSize, drawData) ==
    IF framebufferSize[1] <= 0 \/ framebufferSize[2] <= 0
    THEN [w |-> Work(s), drawData |-> drawData]
    ELSE LET scaled == ScaleClipRects(drawData,
                            <<framebufferSize[1] \div displaySize[1],
                              framebufferSize[2] \div displaySize[2]>>)
             saved == BackupState(Work(s))
             setup == SetupRenderState(saved.w, r, displaySize, framebufferSize)
             vao   == SetupVertexArray(setup, r)
             drawn == RenderLists(vao.w, r, scaled, framebufferSize[2])
         IN  After(<<saved, setup, vao, drawn>>,
                   [w |-> RestoreState(drawn, saved.last), drawData |-> scaled])

\* Mutant: only a negative framebuffer width or height returns early.
Render_StrictCheck(s, r, displaySize, framebufferSize, drawData) ==
    IF framebufferSize[1] < 0 \/ framebufferSize[2] < 0
    THEN [w |-> Work(s), drawData |-> drawData]
    ELSE LET scaled == ScaleClipRects(drawData,
                            <<framebufferSize[1] \div displaySize[1],
                              framebufferSize[2] \div displaySize[2]>>)
             saved == BackupState(Work(s))
             setup == SetupRenderState(saved.w, r, displaySize, framebufferSize)
             vao   == SetupVertexArray(setup, r)
             drawn == RenderLists(vao.w, r, scaled, framebufferSize[2])
             freed == DeleteVertexArrays(drawn, vao.vaoHandle)
         IN  After(<<saved, setup, vao, drawn, freed>>,
                   [w |-> RestoreState(freed, saved.last), drawData |-> scaled])

\* OpenGL3.Render(displaySize, framebufferSize, drawData) on context state s:
\* the calls made, the context state left and the draw data left (its clip
\* rectangles are scaled in place).
Render(s, r, displaySize, framebufferSize, drawData) ==
    IF framebufferSize[1] <= 0 \/ framebufferSize[2] <= 0
    THEN [w |-> Work(s), drawData |-> drawData]
    ELSE LET scaled == ScaleClipRects(drawData,
                            <<framebufferSize[1] \div displaySize[1],
                              framebufferSize[2] \div displaySize[2]>>)
             saved == BackupState(Work(s))
             setup == SetupRenderState(saved.w, r, displaySize, framebufferSize)
             vao   == SetupVertexArray(setup, r)
             drawn == RenderLists(vao.w, r, scaled, framebufferSize[2])
             freed == DeleteVertexArrays(drawn, vao.vaoHandle)
         IN  After(<<saved, setup, vao, drawn, freed>>,
                   [w |-> RestoreState(freed, saved.last), drawData |-> scaled])

\* Mutant: the buffers are deleted but their handles are kept.
invalidateDeviceObjects_KeepBuffers(w, r, atlasID) ==
    LET e1 == IF r.vboHandle # 0 THEN DeleteBuffers(w, r.vboHandle) ELSE w
        e2 == IF r.elementsHandle # 0 THEN DeleteBuffers(e1, r.elementsHandle) ELSE e1
        e3 == IF r.shaderHandle # 0 /\ r.vertHandle # 0
              THEN DetachShader(e2, r.shaderHandle, r.vertHandle) ELSE e2
        e4 == IF r.vertHandle # 0 THEN DeleteShader(e3, r.vertHandle) ELSE e3
        e5 == IF r.shaderHandle # 0 /\ r.fragHandle # 0
              THEN DetachShader(e4, r.shaderHandle, r.fragHandle) ELSE e4
        e6 == IF r.fragHandle # 0 THEN DeleteShader(e5, r.fragHandle) ELSE e5
        e7 == IF r.shaderHandle # 0 THEN DeleteProgram(e6, r.shaderHandle) ELSE e6
        e8 == IF r.fontTexture # 0 THEN DeleteTextures(e7, r.fontTexture) ELSE e7
    IN  [ w |-> e8,
          r |-> [r EXCEPT !.vertHandle = 0, !.fragHandle = 0, !.shaderHandle = 0,
                          !.fontTexture = 0],
          fontTexID |-> IF r.fontTexture # 0 THEN 0 ELSE atlasID ]

\* OpenGL3.invalidateDeviceObjects: the calls made and the fields left.
invalidateDeviceObjects(w, r, atlasID) ==
    LET e1 == IF r.vboHandle # 0 THEN DeleteBuffers(w, r.vboHandle) ELSE w
        e2 == IF r.elementsHandle # 0 THEN DeleteBuffers(e1, r.elementsHandle) ELSE e1
        e3 == IF r.shaderHandle # 0 /\ r.vertHandle # 0
              THEN DetachShader(e2, r.shaderHandle, r.vertHandle) ELSE e2
        e4 == IF r.vertHandle # 0 THEN DeleteShader(e3, r.vertHandle) ELSE e3
        e5 == IF r.shaderHandle # 0 /\ r.fragHandle # 0
              THEN DetachShader(e4, r.shaderHandle, r.fragHandle) ELSE e4
        e6 == IF r.fragHandle # 0 THEN DeleteShader(e5, r.fragHandle) ELSE e5
        e7 == IF r.shaderHandle # 0 THEN DeleteProgram(e6, r.shaderHandle) ELSE e6
        e8 == IF r.fontTexture # 0 THEN DeleteTextures(e7, r.fontTexture) ELSE e7
    IN  [ w |-> e8,
          r |-> [r EXCEPT !.vboHandle = 0, !.elementsHandle = 0, !.vertHandle = 0,
                          !.fragHandle = 0, !.shaderHandle = 0, !.fontTexture = 0],
          fontTexID |-> IF r.fontTexture # 0 THEN 0 ELSE atlasID ]

\* OpenGL3.Dispose
OpenGL3_Dispose(w, r, atlasID) == invalidateDeviceObjects(w, r, atlasID)

(***************************************************************************)
(* The renderer's caller: a context in some state, the constructor, then   *)
(* PreRender, Render and Dispose in any order.                             *)
(***************************************************************************)

\* The most command lists in a draw data, and the most commands in it.
MaxLists == 2
MaxCmds == 2

\* The context before the renderer is used, as three settings: the defaults
\* of a fresh context, and two in which every value differs from the one
\* Render sets up.  elementsOn is the vertex array whose element array
\* binding is buffer 1.
GLSettings ==
    { [ program |-> 0, arrayBuffer |-> 0, texture0 |-> 0, sampler0 |-> 0,
        vertexArray |-> 0, elementsOn |-> 1,
        blendEquationRGB |-> "FUNC_ADD", blendEquationAlpha |-> "FUNC_ADD",
        blendSrcRGB |-> "ONE", blendDstRGB |-> "ZERO",
        blendSrcAlpha |-> "ONE", blendDstAlpha |-> "ZERO",
        enabled |-> [c \in EnableCaps |-> FALSE],
        polygonMode |-> [front |-> "FILL", back |-> "FILL"],
        viewport |-> <<0, 0, 4, 4>>, scissorBox |-> <<0, 0, 4, 4>> ],
      [ program |-> 1, arrayBuffer |-> 1, texture0 |-> 1, sampler0 |-> 1,
        vertexArray |-> 1, elementsOn |-> 1,
        blendEquationRGB |-> "FUNC_SUBTRACT", blendEquationAlpha |-> "FUNC_ADD",
        blendSrcRGB |-> "SRC_ALPHA", blendDstRGB |-> "ONE",
        blendSrcAlpha |-> "ONE", blendDstAlpha |-> "ZERO",
        enabled |-> [c \in EnableCaps |-> TRUE],
        polygonMode |-> [front |-> "LINE", back |-> "LINE"],
        viewport |-> <<1, 1, 2, 2>>, scissorBox |-> <<1, 1, 3, 3>> ],
      [ program |-> 1, arrayBuffer |-> 0, texture0 |-> 1, sampler0 |-> 0,
        vertexArray |-> 0, elementsOn |-> 0,
        blendEquationRGB |-> "FUNC_ADD", blendEquationAlpha |-> "FUNC_SUBTRACT",
        blendSrcRGB |-> "ONE", blendDstRGB |-> "ONE_MINUS_SRC_ALPHA",
        blendSrcAlpha |-> "ZERO", blendDstAlpha |-> "SRC_ALPHA",
        enabled |-> [c \in EnableCaps |-> c \in {"CULL_FACE", "SCISSOR_TEST"}],
        polygonMode |-> [front |-> "LINE", back |-> "FILL"],
        viewport |-> <<0, 0, 8, 8>>, scissorBox |-> <<2, 2, 1, 1>> ] }

\* The objects the application owns before the renderer is constructed.
AppObjects ==
    [vertexArray |-> {1}, buffer |-> {1}, texture |-> {1, 2}, shader |-> {1},
     sampler |-> {1}]

GLInitStates ==
    { [ activeTexture |-> unit,
        texture2D |-> [u \in TextureUnits |-> IF u = 0 THEN g.texture0 ELSE 2],
        sampler |-> [u \in TextureUnits |-> IF u = 0 THEN g.sampler0 ELSE 0],
        vertexArray |-> g.vertexArray,
        vaoElementBuffer |-> [v \in {0, 1} |-> IF v = g.elementsOn THEN 1 ELSE 0],
        program |-> g.program, arrayBuffer |-> g.arrayBuffer,
        blendEquationRGB |-> g.blendEquationRGB,
        blendEquationAlpha |-> g.blendEquationAlpha,
        blendSrcRGB |-> g.blendSrcRGB, blendDstRGB |-> g.blendDstRGB,
        blendSrcAlpha |-> g.blendSrcAlpha, blendDstAlpha |-> g.blendDstAlpha,
        enabled |-> g.enabled, polygonMode |-> g.polygonMode,
        viewport |-> g.viewport, scissorBox |-> g.scissorBox,
        objects |-> AppObjects, attached |-> {} ] :
        unit \in TextureUnits, g \in GLSettings }

\* Display and framebuffer sizes: a minimized window (a zero or a negative
\* width, a zero height), and a framebuffer of once and twice the display size.
RenderSizes ==
    { [display |-> <<4, 4>>, fb |-> <<0, 4>>],
      [display |-> <<4, 4>>, fb |-> <<-1, 4>>],
      [display |-> <<4, 4>>, fb |-> <<4, 0>>],
      [display |-> <<4, 4>>, fb |-> <<4, 4>>],
      [display |-> <<4, 4>>, fb |-> <<8, 8>>] }

\* Draw commands: two that draw, with a texture of the application each, and
\* one with a user callback (which selects texture unit 1).
DrawCommands ==
    { [callback |-> "none", textureID |-> 2, clipRect |-> <<0, 1, 2, 2>>,
       elementCount |-> 6, indexOffset |-> 0, vertexOffset |-> 0],
      [callback |-> "none", textureID |-> 1, clipRect |-> <<1, 0, 3, 2>>,
       elementCount |-> 3, indexOffset |-> 6, vertexOffset |-> 4],
      [callback |-> "ActiveTexture1", textureID |-> 0, clipRect |-> <<0, 0, 0, 0>>,
       elementCount |-> 0, indexOffset |-> 0, vertexOffset |-> 0] }

RECURSIVE CommandCount(_)
CommandCount(drawData) ==
    IF drawData = <<>> THEN 0
    ELSE Len(Head(drawData).commands) + CommandCount(Tail(drawData))

\* Each command list of a draw data has its own vertex and index buffer.
OwnBuffers(d) ==
    [i \in 1..Len(d) |->
        [d[i] EXCEPT !.vertexBuffer = <<"vertices", i>>,
                     !.indexBuffer = <<"indices", i>>]]

DrawDatas ==
    { OwnBuffers(d) :
        d \in { dd \in SeqsUpTo({ [vertexBuffer |-> "vertices", indexBuffer |-> "indices",
                                    commands |-> cmds] :
                                        cmds \in SeqsUpTo(DrawCommands, MaxCmds) },
                                 MaxLists) :
                    CommandCount(dd) <= MaxCmds } }

NoRenderArgs == [displaySize |-> <<>>, framebufferSize |-> <<>>, drawData |-> <<>>,
                 drawDataAfter |-> <<>>]

RenderIdle ==
    /\ gl = [objects |-> AppObjects]
    /\ r3 = Nil
    /\ fontTexID = 0
    /\ glOp = "off"
    /\ glLog = <<>>
    /\ glBefore = [objects |-> AppObjects]
    /\ renderArgs = NoRenderArgs
    /\ frame = <<>>

RenderInit ==
    /\ gl \in GLInitStates
    /\ r3 = Nil
    /\ fontTexID = 0
    /\ glOp = "start"
    /\ glLog = <<>>
    /\ glBefore = gl
    /\ renderArgs = NoRenderArgs
    /\ frame \in DrawDatas

\* renderer, err := NewOpenGL3(io)
CallNewOpenGL3 ==
    /\ glOp = "start"
    /\ \E initOK \in BOOLEAN :
          LET c == NewOpenGL3(gl, initOK)
          IN  /\ gl' = c.w.s
              /\ glLog' = c.w.log
              /\ r3' = c.r
              /\ fontTexID' = c.fontTexID
    /\ glOp' = "NewOpenGL3"
    /\ glBefore' = gl
    /\ renderArgs' = NoRenderArgs
    /\ UNCHANGED frame

\* renderer.PreRender(clearColor)
CallPreRender ==
    /\ r3 # Nil
    /\ glLog' = PreRender(Work(gl), "clearColor").log
    /\ glOp' = "PreRender"
    /\ glBefore' = gl
    /\ renderArgs' = NoRenderArgs
    /\ UNCHANGED <<gl, r3, fontTexID, frame>>

\* renderer.Render(displaySize, framebufferSize, drawData)
CallRender ==
    /\ r3 # Nil
    /\ \E size \in RenderSizes :
          LET d == Render(gl, r3, size.display, size.fb, frame)
          IN  /\ gl' = d.w.s
              /\ glLog' = d.w.log
              /\ renderArgs' = [displaySize |-> size.display,
                                framebufferSize |-> size.fb,
                                drawData |-> frame, drawDataAfter |-> d.drawData]
    /\ glOp' = "Render"
    /\ glBefore' = gl
    /\ UNCHANGED <<r3, fontTexID, frame>>

\* renderer.Dispose()
CallDispose ==
    /\ r3 # Nil
    /\ LET x == OpenGL3_Dispose(Work(gl), r3, fontTexID)
       IN  /\ gl' = x.w.s
           /\ glLog' = x.w.log
           /\ r3' = x.r
           /\ fontTexID' = x.fontTexID
    /\ glOp' = "Dispose"
    /\ glBefore' = gl
    /\ renderArgs' = NoRenderArgs
    /\ UNCHANGED frame

(***************************************************************************)
(* The environment of the platforms: the events the window system queues   *)
(* and the samples the library reports when polled.                        *)
(***************************************************************************)

\* The most events pending at one time.
MaxPending == 2

SDLEvents ==
    { [type |-> "QUIT"],
      [type |-> "MOUSEWHEEL", X |-> 3, Y |-> -2],
      [type |-> "MOUSEWHEEL", X |-> -1, Y |-> 0],
      [type |-> "MOUSEWHEEL", X |-> 0, Y |-> 5],
      [type |-> "MOUSEBUTTONDOWN", Button |-> "BUTTON_LEFT"],
      [type |-> "MOUSEBUTTONDOWN", Button |-> "BUTTON_MIDDLE"],
      [type |-> "MOUSEBUTTONDOWN", Button |-> "BUTTON_RIGHT"],
      [type |-> "MOUSEBUTTONDOWN", Button |-> "BUTTON_X1"],
      [type |-> "MOUSEBUTTONUP", Button |-> "BUTTON_LEFT"],
      [type |-> "TEXTINPUT", Text |-> "a"],
      [type |-> "KEYDOWN", Sym |-> "K_a", Scancode |-> "SCANCODE_A",
       Mod |-> {"KMOD_LCTRL", "KMOD_RSHIFT"}],
      [type |-> "KEYDOWN", Sym |-> "K_UNKNOWN", Scancode |-> "SCANCODE_UNKNOWN",
       Mod |-> {}],
      [type |-> "KEYUP", Sym |-> "K_MINUS", Scancode |-> "SCANCODE_MINUS",
       Mod |-> {"KMOD_RALT", "KMOD_LGUI", "KMOD_NUM"}] }

GLFWEvents ==
    { [type |-> "close"],
      [type |-> "scroll", x |-> 3, y |-> -16777217],
      [type |-> "mouseButton", button |-> "MouseButton1", action |-> "Press", mods |-> {}],
      [type |-> "mouseButton", button |-> "MouseButton2", action |-> "Press", mods |-> {}],
      [type |-> "mouseButton", button |-> "MouseButton3", action |-> "Press",
       mods |-> {"ModShift"}],
      [type |-> "mouseButton", button |-> "MouseButton4", action |-> "Press", mods |-> {}],
      [type |-> "mouseButton", button |-> "MouseButton1", action |-> "Release", mods |-> {}],
      [type |-> "char", char |-> "a"],
      [type |-> "key", key |-> "KeyA", scancode |-> 0, action |-> "Press",
       mods |-> {"ModControl"}],
      [type |-> "key", key |-> "KeyA", scancode |-> 0, action |-> "Release", mods |-> {}],
      [type |-> "key", key |-> "KeyUnknown", scancode |-> 0, action |-> "Press",
       mods |-> {"ModShift", "ModAlt"}],
      [type |-> "key", key |-> "KeyW", scancode |-> 0, action |-> "Repeat",
       mods |-> {"ModSuper"}] }

\* Values of the performance counter (SDL) or the time (GLFW), which never
\* decrease.
CounterValues == {0, 7}

SDLSamples(p) ==
    { [size |-> <<"w", "h">>, counter |-> c, pos |-> <<"x", "y">>, state |-> s] :
        c \in {v \in CounterValues : v >= p.time},
        s \in { {}, {"BUTTON_LEFT", "BUTTON_X1"}, {"BUTTON_MIDDLE", "BUTTON_RIGHT"} } }

GLFWSamples(p) ==
    { [size |-> <<"w", "h">>, counter |-> c, pos |-> <<"x", "y">>,
       focused |-> fs[1], state |-> fs[2]] :
        c \in {v \in CounterValues : v >= p.time},
        fs \in { <<TRUE, {}>>, <<TRUE, {"MouseButton1"}>>,
                 <<FALSE, {"MouseButton2", "MouseButton3"}>> } }

ClipboardTexts == {"a"}

\* ---- history of the events handled, used to state the properties

\* The latch index (0 primary, 1 secondary, 2 tertiary) an event is a press
\* for, as a set: empty when the event is no press of one of the three buttons.
PressOf(t, ev) ==
    IF t = "sdl"
    THEN IF ev.type = "MOUSEBUTTONDOWN"
         THEN CASE ev.Button = "BUTTON_LEFT" -> {0}
                [] ev.Button = "BUTTON_RIGHT" -> {1}
                [] ev.Button = "BUTTON_MIDDLE" -> {2}
                [] OTHER -> {}
         ELSE {}
    ELSE IF ev.type = "mouseButton" /\ ev.action = "Press"
         THEN CASE ev.button = "MouseButton1" -> {0}
                [] ev.button = "MouseButton2" -> {1}
                [] ev.button = "MouseButton3" -> {2}
                [] OTHER -> {}
         ELSE {}

PressesIn(t, evs) == UNION { PressOf(t, evs[i]) : i \in 1..Len(evs) }

NoCtor == [fail |-> "none", err |-> "nil"]
NoSample == Nil

\* What a step records about itself.
Record(name, calls, seen, sample, c, atFrame) ==
    /\ op' = name
    /\ ioCalls' = calls
    /\ processed' = seen
    /\ polled' = sample
    /\ ctor' = c
    /\ pressedAtFrame' = atFrame
    /\ pending' = <<>>
    /\ queue' = <<>>

(***************************************************************************)
(* main (cmd/example_sdl_opengl2 and cmd/example_glfw_opengl2).  The mains *)
(* under cmd/ pass OpenGL2 or OpenGL3 to the platform constructor; the     *)
(* model runs them with every value of ClientAPIs.                         *)
(***************************************************************************)

ProgIdle ==
    /\ tag = "none"
    /\ clientAPI = ClientAPIOpenGL2
    /\ pc = "off"
    /\ exitStatus = "running"
    /\ deferred = <<>>
    /\ imguiCtx = "none"
    /\ platform = Nil
    /\ renderer = "nil"
    /\ lib = LibInit
    /\ burst = <<>>
    /\ pending = <<>>
    /\ queue = <<>>
    /\ op = "env"
    /\ ctor = NoCtor
    /\ ioCalls = <<>>
    /\ processed = <<>>
    /\ polled = NoSample
    /\ quitSeen = FALSE
    /\ pressedSince = {}
    /\ pressedAtFrame = {}

ProgInit ==
    /\ tag \in {"sdl", "glfw"}
    /\ clientAPI \in ClientAPIs
    /\ pc = "start"
    /\ exitStatus = "running"
    /\ deferred = <<>>
    /\ imguiCtx = "none"
    /\ platform = Nil
    /\ renderer = "nil"
    /\ lib = LibInit
    /\ burst \in SeqsUpTo(IF tag = "sdl" THEN SDLEvents ELSE GLFWEvents, MaxPending)
    /\ pending = <<>>
    /\ queue = <<>>
    /\ op = "env"
    /\ ctor = NoCtor
    /\ ioCalls = <<>>
    /\ processed = <<>>
    /\ polled = NoSample
    /\ quitSeen = FALSE
    /\ pressedSince = {}
    /\ pressedAtFrame = {}

\* context := imgui.CreateContext(nil); defer context.Destroy()
MainCreateContext ==
    /\ pc = "start"
    /\ imguiCtx' = "live"
    /\ deferred' = <<"context.Destroy">> \o deferred
    /\ pc' = "newPlatform"
    /\ Record("CreateContext", <<>>, <<>>, NoSample, NoCtor, {})
    /\ UNCHANGED <<tag, clientAPI, exitStatus, platform, renderer, lib, burst, quitSeen, pressedSince>>

\* What main does with the constructor's result r: on an error, print it and
\* os.Exit(-1), which ends the process without running the deferred calls;
\* otherwise defer platform.Dispose().
MainAfterConstructor(name, fail, r) ==
    /\ platform' = r.platform
    /\ lib' = r.lib
    /\ Record(name, <<>>, <<>>, NoSample, [fail |-> fail, err |-> r.err], {})
    /\ IF r.err # "nil"
       THEN /\ pc' = "done"
            /\ exitStatus' = "-1"
            /\ UNCHANGED deferred
       ELSE /\ pc' = "newRenderer"
            /\ deferred' = <<"platform.Dispose">> \o deferred
            /\ UNCHANGED exitStatus
    /\ UNCHANGED <<tag, clientAPI, imguiCtx, renderer, burst, quitSeen, pressedSince>>

\* platform, err := platforms.NewSDL(io, clientAPI) and the error check
MainNewSDL ==
    /\ pc = "newPlatform"
    /\ tag = "sdl"
    /\ \E fail \in SDLFailPoints :
          MainAfterConstructor("NewSDL", fail, NewSDL(lib, clientAPI, fail))

\* platform, err := platforms.NewGLFW(io, clientAPI) and the error check
MainNewGLFW ==
    /\ pc = "newPlatform"
    /\ tag = "glfw"
    /\ \E fail \in GLFWFailPoints :
          MainAfterConstructor("NewGLFW", fail, NewGLFW(lib, clientAPI, fail))

\* renderer, err := renderers.NewOpenGL2(io) and the error check; whether the
\* constructor succeeds is an input.
MainNewRenderer ==
    /\ pc = "newRenderer"
    /\ \E ok \in BOOLEAN :
          /\ renderer' = IF ok THEN "live" ELSE "nil"
          /\ IF ok
             THEN /\ pc' = "run"
                  /\ deferred' = <<"renderer.Dispose">> \o deferred
                  /\ UNCHANGED exitStatus
             ELSE /\ pc' = "done"
                  /\ exitStatus' = "-1"
                  /\ UNCHANGED deferred
    /\ Record("NewOpenGL2", <<>>, <<>>, NoSample, NoCtor, {})
    /\ UNCHANGED <<tag, clientAPI, imguiCtx, platform, lib, burst, quitSeen,
                   pressedSince>>

\* example.Run(platform, renderer) returns.
MainRunReturns ==
    /\ pc = "run"
    /\ pc' = "return"
    /\ Record("RunReturns", <<>>, <<>>, NoSample, NoCtor, {})
    /\ UNCHANGED <<tag, clientAPI, exitStatus, deferred, imguiCtx, platform, renderer,
                   lib, burst, quitSeen, pressedSince>>

\* One deferred call, on the objects main holds.
RunDeferredCall(call, s) ==
    CASE call = "renderer.Dispose" -> [s EXCEPT !.renderer = "disposed"]
      [] call = "platform.Dispose" ->
           LET r == IF tag = "sdl" THEN SDL_Dispose(s.platform, s.lib)
                                   ELSE GLFW_Dispose(s.platform, s.lib)
           IN  [s EXCEPT !.platform = r.platform, !.lib = r.lib]
      [] call = "context.Destroy" -> [s EXCEPT !.imguiCtx = "destroyed"]

\* The deferred calls run latest first.
RECURSIVE RunDeferred(_, _)
RunDeferred(calls, s) ==
    IF calls = <<>> THEN s ELSE RunDeferred(Tail(calls), RunDeferredCall(Head(calls), s))

\* main returns: the deferred calls run and the process ends with status 0.
MainReturn ==
    /\ pc = "return"
    /\ LET s == RunDeferred(deferred,
                    [renderer |-> renderer, platform |-> platform, lib |-> lib,
                     imguiCtx |-> imguiCtx])
       IN  /\ renderer' = s.renderer
           /\ platform' = s.platform
           /\ lib' = s.lib
           /\ imguiCtx' = s.imguiCtx
    /\ deferred' = <<>>
    /\ pc' = "done"
    /\ exitStatus' = "0"
    /\ Record("Return", <<>>, <<>>, NoSample, NoCtor, {})
    /\ UNCHANGED <<tag, clientAPI, burst, quitSeen, pressedSince>>

(***************************************************************************)
(* While example.Run runs: the window system queues events and the         *)
(* platform's methods are called.                                          *)
(***************************************************************************)

Running == pc = "run"

\* The library's event queue when ProcessEvents is called: empty, or the burst.
Pendings == {<<>>, burst}

\* SDL.ProcessEvents
SDLProcessEvents ==
    /\ Running
    /\ tag = "sdl"
    /\ \E evs \in Pendings :
          LET r == SDL_ProcessEvents(platform, evs)
          IN  /\ platform' = r.platform
              /\ pending' = evs
              /\ queue' = r.queue
              /\ ioCalls' = r.calls
              /\ processed' = r.seen
              /\ quitSeen' = (quitSeen \/ \E i \in 1..Len(r.seen) : r.seen[i].type = "QUIT")
              /\ pressedSince' = pressedSince \cup PressesIn("sdl", r.seen)
    /\ op' = "ProcessEvents"
    /\ polled' = NoSample
    /\ ctor' = NoCtor
    /\ pressedAtFrame' = {}
    /\ UNCHANGED <<tag, clientAPI, pc, exitStatus, deferred, imguiCtx, renderer, lib,
                   burst>>

\* SDL.NewFrame
SDLNewFrame ==
    /\ Running
    /\ tag = "sdl"
    /\ \E sample \in SDLSamples(platform) :
          LET r == SDL_NewFrame(platform, sample)
          IN  /\ platform' = r.platform
              /\ Record("NewFrame", r.calls, <<>>, sample, NoCtor, pressedSince)
    /\ pressedSince' = {}
    /\ UNCHANGED <<tag, clientAPI, pc, exitStatus, deferred, imguiCtx, renderer, lib, burst, quitSeen>>

\* SDL.PostRender: window.GLSwap()
SDLPostRender ==
    /\ Running
    /\ tag = "sdl"
    /\ Record("PostRender", <<>>, <<>>, NoSample, NoCtor, {})
    /\ UNCHANGED <<tag, clientAPI, pc, exitStatus, deferred, imguiCtx, platform,
                   renderer, lib, burst, quitSeen, pressedSince>>

\* SDL.SetClipboardText
SDLSetClipboardText ==
    /\ Running
    /\ tag = "sdl"
    /\ \E text \in ClipboardTexts : lib' = SDL_SetClipboardText(lib, text)
    /\ Record("SetClipboardText", <<>>, <<>>, NoSample, NoCtor, {})
    /\ UNCHANGED <<tag, clientAPI, pc, exitStatus, deferred, imguiCtx, platform,
                   renderer, burst, quitSeen, pressedSince>>

\* The methods that only read: ShouldStop, DisplaySize, FramebufferSize,
\* ClipboardText.
PlatformQuery ==
    /\ Running
    /\ Record("Query", <<>>, <<>>, NoSample, NoCtor, {})
    /\ UNCHANGED <<tag, clientAPI, pc, exitStatus, deferred, imguiCtx, platform,
                   renderer, lib, burst, quitSeen, pressedSince>>

\* GLFW.ProcessEvents
GLFWProcessEvents ==
    /\ Running
    /\ tag = "glfw"
    /\ \E evs \in Pendings :
          LET r == GLFW_ProcessEvents(platform, lib, evs)
          IN  /\ platform' = r.platform
              /\ lib' = r.lib
              /\ pending' = evs
              /\ queue' = r.queue
              /\ ioCalls' = r.calls
              /\ processed' = r.seen
              /\ pressedSince' = pressedSince \cup PressesIn("glfw", r.seen)
    /\ op' = "ProcessEvents"
    /\ polled' = NoSample
    /\ ctor' = NoCtor
    /\ pressedAtFrame' = {}
    /\ UNCHANGED <<tag, clientAPI, pc, exitStatus, deferred, imguiCtx, renderer,
                   burst, quitSeen>>

\* GLFW.NewFrame
GLFWNewFrame ==
    /\ Running
    /\ tag = "glfw"
    /\ \E sample \in GLFWSamples(platform) :
          LET r == GLFW_NewFrame(platform, sample)
          IN  /\ platform' = r.platform
              /\ Record("NewFrame", r.calls, <<>>, sample, NoCtor, pressedSince)
    /\ pressedSince' = {}
    /\ UNCHANGED <<tag, clientAPI, pc, exitStatus, deferred, imguiCtx, renderer, lib, burst, quitSeen>>

\* GLFW.PostRender: window.SwapBuffers()
GLFWPostRender ==
    /\ Running
    /\ tag = "glfw"
    /\ Record("PostRender", <<>>, <<>>, NoSample, NoCtor, {})
    /\ UNCHANGED <<tag, clientAPI, pc, exitStatus, deferred, imguiCtx, platform,
                   renderer, lib, burst, quitSeen, pressedSince>>

\* GLFW.SetClipboardText
GLFWSetClipboardText ==
    /\ Running
    /\ tag = "glfw"
    /\ \E text \in ClipboardTexts : lib' = GLFW_SetClipboardText(lib, text)
    /\ Record("SetClipboardText", <<>>, <<>>, NoSample, NoCtor, {})
    /\ UNCHANGED <<tag, clientAPI, pc, exitStatus, deferred, imguiCtx, platform,
                   renderer, burst, quitSeen, pressedSince>>

ProgNext ==
    \/ MainCreateContext /\ UNCHANGED <<keyVars, glVars>>
    \/ MainNewSDL /\ UNCHANGED <<keyVars, glVars>>
    \/ MainNewGLFW /\ UNCHANGED <<keyVars, glVars>>
    \/ MainNewRenderer /\ UNCHANGED <<keyVars, glVars>>
    \/ MainRunReturns /\ UNCHANGED <<keyVars, glVars>>
    \/ MainReturn /\ UNCHANGED <<keyVars, glVars>>
    \/ SDLProcessEvents /\ UNCHANGED <<keyVars, glVars>>
    \/ SDLNewFrame /\ UNCHANGED <<keyVars, glVars>>
    \/ SDLPostRender /\ UNCHANGED <<keyVars, glVars>>
    \/ SDLSetClipboardText /\ UNCHANGED <<keyVars, glVars>>
    \/ PlatformQuery /\ UNCHANGED <<keyVars, glVars>>
    \/ GLFWProcessEvents /\ UNCHANGED <<keyVars, glVars>>
    \/ GLFWNewFrame /\ UNCHANGED <<keyVars, glVars>>
    \/ GLFWPostRender /\ UNCHANGED <<keyVars, glVars>>
    \/ GLFWSetClipboardText /\ UNCHANGED <<keyVars, glVars>>

(***************************************************************************)
(* Specifications.                                                         *)
(***************************************************************************)

vars == <<keyVars, progVars, glVars>>

\* The example programs.
Init == ProgInit /\ KeysIdle /\ RenderIdle

Next == ProgNext

Spec == Init /\ [][Next]_vars

\* The key translations.
InitKeys == KeysInit /\ ProgIdle /\ RenderIdle

NextKeys ==
    \/ GlfwTranslate /\ UNCHANGED <<progVars, glVars>>
    \/ Sdl2Translate /\ UNCHANGED <<progVars, glVars>>

SpecKeys == InitKeys /\ [][NextKeys]_vars

\* The OpenGL3 renderer.
InitRender == RenderInit /\ ProgIdle /\ KeysIdle

NextRender ==
    \/ CallNewOpenGL3 /\ UNCHANGED <<progVars, keyVars>>
    \/ CallPreRender /\ UNCHANGED <<progVars, keyVars>>
    \/ CallRender /\ UNCHANGED <<progVars, keyVars>>
    \/ CallDispose /\ UNCHANGED <<progVars, keyVars>>

SpecRender == InitRender /\ [][NextRender]_vars

(***************************************************************************)
(* Properties.                                                             *)
(***************************************************************************)

NoUserCallback(drawData) ==
    \A i \in 1..Len(drawData) :
        \A j \in 1..Len(drawData[i].commands) :
            drawData[i].commands[j].callback = "none"

\* The last step was a Render call that got past the framebuffer size check
\* with a draw data without user callbacks.
RenderedWithoutCallbacks ==
    /\ glOp = "Render"
    /\ renderArgs.framebufferSize[1] > 0
    /\ renderArgs.framebufferSize[2] > 0
    /\ NoUserCallback(renderArgs.drawData)

\* C1: after a Render call with a framebuffer of positive width and height and
\* a draw data without user callbacks, the current program, the texture and
\* sampler bindings of texture unit 0, the active texture unit, the vertex
\* array binding, the array buffer and element array buffer bindings, the blend
\* equations, the blend functions, the enabled flags of BLEND, CULL_FACE,
\* DEPTH_TEST and SCISSOR_TEST, the viewport and the scissor box have the
\* values they had immediately before the call.
C1_RenderRestoresState ==
    RenderedWithoutCallbacks =>
        /\ gl.program = glBefore.program
        /\ gl.texture2D[0] = glBefore.texture2D[0]
        /\ gl.sampler[0] = glBefore.sampler[0]
        /\ gl.activeTexture = glBefore.activeTexture
        /\ gl.vertexArray = glBefore.vertexArray
        /\ gl.arrayBuffer = glBefore.arrayBuffer
        /\ QueryInt(gl, "ELEMENT_ARRAY_BUFFER_BINDING")
             = QueryInt(glBefore, "ELEMENT_ARRAY_BUFFER_BINDING")
        /\ gl.blendEquationRGB = glBefore.blendEquationRGB
        /\ gl.blendEquationAlpha = glBefore.blendEquationAlpha
        /\ gl.blendSrcRGB = glBefore.blendSrcRGB
        /\ gl.blendDstRGB = glBefore.blendDstRGB
        /\ gl.blendSrcAlpha = glBefore.blendSrcAlpha
        /\ gl.blendDstAlpha = glBefore.blendDstAlpha
        /\ \A cap \in EnableCaps : gl.enabled[cap] = glBefore.enabled[cap]
        /\ gl.viewport = glBefore.viewport
        /\ gl.scissorBox = glBefore.scissorBox

\* C1 witness: a Render call that drew two commands from a context in which
\* texture unit 1 was active, another program was current, a vertex array and
\* buffers were bound and every capability was enabled.
C1_Witness ==
    /\ RenderedWithoutCallbacks
    /\ CommandCount(renderArgs.drawData) = 2
    /\ r3.shaderHandle # 0
    /\ glBefore.activeTexture = 1
    /\ glBefore.program = 1
    /\ glBefore.vertexArray = 1
    /\ glBefore.arrayBuffer = 1
    /\ QueryInt(glBefore, "ELEMENT_ARRAY_BUFFER_BINDING") = 1
    /\ \A cap \in EnableCaps : glBefore.enabled[cap]
    /\ glBefore.blendSrcAlpha # glBefore.blendSrcRGB
    /\ \E i \in 1..Len(glLog) : glLog[i][1] = "DrawElementsBaseVertexWithOffset"

\* C2: glfwKeyEventToImguiKey returns KeyNone exactly for the GLFW keys that
\* have no case in its switch, and sdl2KeyEventToImguiKey returns KeyNone
\* exactly for the pairs whose keycode has no case in the first switch and
\* whose scancode has no case in the fallback switch; every other input gives a
\* key different from KeyNone.
C2_UnmappedKeyIsKeyNone ==
    keyResult # "unset" =>
        IF keyLib = "glfw"
        THEN (keyResult = KeyNone) <=> (keyArg[1] \notin CaseLabels(glfwKeyCases))
        ELSE (keyResult = KeyNone) <=>
                 /\ keyArg[1] \notin CaseLabels(sdl2KeycodeCases)
                 /\ keyArg[2] \notin CaseLabels(sdl2ScancodeCases)

\* C2 witness: a keycode whose case is commented out in the source, with a
\* scancode that has no case either, was translated to KeyNone.
C2_Witness ==
    /\ keyLib = "sdl"
    /\ keyArg = <<"K_BACKQUOTE", "SCANCODE_UNKNOWN">>
    /\ keyResult = KeyNone

IsKeyEvent(ev) == ev.type \in {"KEYDOWN", "KEYUP"}

\* The calls C3 asks for one keyboard event: the key event, then the four
\* modifier events in the order Ctrl, Shift, Alt, Super.
KeyEventCalls(ev) ==
    << <<"AddKeyEvent", sdl2KeyEventToImguiKey(ev.Sym, ev.Scancode),
         ev.type = "KEYDOWN">>,
       <<"AddKeyEvent", "KeyModCtrl",
         "KMOD_LCTRL" \in ev.Mod \/ "KMOD_RCTRL" \in ev.Mod>>,
       <<"AddKeyEvent", "KeyModShift",
         "KMOD_LSHIFT" \in ev.Mod \/ "KMOD_RSHIFT" \in ev.Mod>>,
       <<"AddKeyEvent", "KeyModAlt",
         "KMOD_LALT" \in ev.Mod \/ "KMOD_RALT" \in ev.Mod>>,
       <<"AddKeyEvent", "KeyModSuper",
         "KMOD_LGUI" \in ev.Mod \/ "KMOD_RGUI" \in ev.Mod>> >>

RECURSIVE KeyEventCallsOf(_)
KeyEventCallsOf(evs) ==
    IF evs = <<>> THEN <<>>
    ELSE (IF IsKeyEvent(Head(evs)) THEN KeyEventCalls(Head(evs)) ELSE <<>>)
         \o KeyEventCallsOf(Tail(evs))

IsAddKeyEvent(call) == call[1] = "AddKeyEvent"

\* C3: the AddKeyEvent calls SDL.ProcessEvents makes are, for each KEYDOWN or
\* KEYUP event in the order polled, one key event for the translated key (down
\* for KEYDOWN, up for KEYUP) followed by the four modifier events Ctrl, Shift,
\* Alt, Super with the bits of the event's modifier mask, and nothing else.
C3_SDLKeyEventsPassThrough ==
    (tag = "sdl" /\ op = "ProcessEvents") =>
        SelectSeq(ioCalls, IsAddKeyEvent) = KeyEventCallsOf(processed)

\* C3 witness: a KEYUP with Alt and Super held and then a KEYDOWN of an
\* unmapped key were processed in one call.
C3_Witness ==
    /\ tag = "sdl"
    /\ op = "ProcessEvents"
    /\ Len(processed) = 2
    /\ processed[1].type = "KEYUP"
    /\ processed[2].type = "KEYDOWN"
    /\ processed[2].Sym = "K_UNKNOWN"
    /\ Len(ioCalls) = 10
    /\ ioCalls[6] = <<"AddKeyEvent", KeyNone, TRUE>>

SupportedClientAPI == clientAPI \in {ClientAPIOpenGL2, ClientAPIOpenGL3}

\* The last step was a NewSDL call in which a library call failed or the
\* client API was not one NewSDL knows.
NewSDLFailed ==
    /\ tag = "sdl"
    /\ op = "NewSDL"
    /\ (ctor.fail # "none" \/ ~SupportedClientAPI)

\* C4: a failing NewSDL returns a nil *SDL and a non-nil error; when sdl.Init
\* failed neither sdl.Quit nor a window destroy was issued; on every later
\* failure sdl.Quit was called exactly once, and the window was destroyed
\* exactly once when the failure came after the window was created (and not
\* at all when creating it failed).
C4_NewSDLFailure ==
    NewSDLFailed =>
        /\ platform = Nil
        /\ ctor.err # "nil"
        /\ lib.shutdownCalls = (IF ctor.fail = "Init" THEN 0 ELSE 1)
        /\ lib.windowDestroyCalls =
               (IF ctor.fail \in {"Init", "CreateWindow"} THEN 0 ELSE 1)

\* C4 witness: GLMakeCurrent failed after NewSDL had created the window and
\* the OpenGL context.
C4_Witness ==
    /\ NewSDLFailed
    /\ ctor.fail = "GLMakeCurrent"
    /\ SupportedClientAPI
    /\ lib.glContextsCreated = 1
    /\ lib.shutdownCalls = 1
    /\ lib.windowDestroyCalls = 1
    /\ platform = Nil

\* C5: after a NewGLFW call, when glfw.Init failed the result is nil with a
\* non-nil error and glfw.Terminate was not called; otherwise, for a client
\* API other than OpenGL2 and OpenGL3 the result is (nil,
\* ErrUnsupportedClientAPI), glfw.Terminate was called once and
\* glfw.CreateWindow was never called; otherwise, when CreateWindow failed the
\* result is nil with a non-nil error and glfw.Terminate was called once; and
\* the callbacks are installed only when NewGLFW returned a platform and no
\* error.
C5_NewGLFWFailure ==
    (tag = "glfw" /\ op = "NewGLFW") =>
        /\ ctor.fail = "Init" =>
              /\ platform = Nil
              /\ ctor.err # "nil"
              /\ lib.shutdownCalls = 0
        /\ (ctor.fail # "Init" /\ ~SupportedClientAPI) =>
              /\ platform = Nil
              /\ ctor.err = ErrUnsupportedClientAPI
              /\ lib.shutdownCalls = 1
              /\ lib.createWindowCalls = 0
        /\ (ctor.fail = "CreateWindow" /\ SupportedClientAPI) =>
              /\ platform = Nil
              /\ ctor.err # "nil"
              /\ lib.shutdownCalls = 1
        /\ lib.callbacks # {} =>
              /\ platform # Nil
              /\ ctor.err = "nil"

\* C5 witness: NewGLFW was called with a client API it does not know and
\* returned ErrUnsupportedClientAPI without having created a window.
C5_Witness ==
    /\ tag = "glfw"
    /\ op = "NewGLFW"
    /\ ~SupportedClientAPI
    /\ ctor.fail = "none"
    /\ ctor.err = ErrUnsupportedClientAPI
    /\ lib.initCalls = 1
    /\ lib.shutdownCalls = 1
    /\ lib.createWindowCalls = 0
    /\ lib.callbacks = {}

\* main returned after a successful NewSDL: Dispose ran once, as a deferred
\* call, and nothing else released anything.
SDLDisposedOnce ==
    /\ tag = "sdl"
    /\ op = "Return"
    /\ lib.initCalls = 1
    /\ lib.createWindowCalls = 1

\* C6: after a successful NewSDL followed by one call of Dispose, each
\* resource NewSDL acquired has been released by a matching call: the library
\* initialisation by sdl.Quit, the window by a window destroy, and the OpenGL
\* context made by GLCreateContext by a context delete.
C6_SDLCreateDestroyPairs ==
    SDLDisposedOnce =>
        /\ ~lib.inited
        /\ lib.shutdownCalls = 1
        /\ ~lib.windowAlive
        /\ lib.windowDestroyCalls = 1
        /\ lib.glContextsDeleted = lib.glContextsCreated

\* C6 witness: after NewSDL and Dispose the library is shut down and the
\* window destroyed, and the OpenGL context NewSDL created was never deleted.
C6_Witness ==
    /\ SDLDisposedOnce
    /\ ~lib.inited
    /\ lib.shutdownCalls = 1
    /\ lib.windowDestroyCalls = 1
    /\ lib.glContextsCreated = 1
    /\ lib.glContextsDeleted = 0

\* The process has ended: main returned or called os.Exit.
ProcessEnded == pc = "done"

\* C7: when the process of an example main (which passes the OpenGL2 client
\* API) has ended, the imgui context it created is destroyed, the platform is
\* disposed if its constructor succeeded (its window destroyed and its library
\* shut down) and the renderer is disposed if its constructor succeeded, also
\* when main exited with status -1.
C7_MainDestroysWhatItCreated ==
    (ProcessEnded /\ clientAPI = ClientAPIOpenGL2) =>
        /\ imguiCtx # "live"
        /\ platform # Nil => (~lib.windowAlive /\ ~lib.inited)
        /\ renderer # "live"

\* C7 witness: NewOpenGL2 returned an error and main exited with status -1,
\* leaving the imgui context alive and the platform undisposed.
C7_Witness ==
    /\ ProcessEnded
    /\ clientAPI = ClientAPIOpenGL2
    /\ exitStatus = "-1"
    /\ op = "NewOpenGL2"
    /\ imguiCtx = "live"
    /\ platform # Nil
    /\ lib.windowAlive
    /\ lib.inited
    /\ deferred = <<"platform.Dispose", "context.Destroy">>

\* C8: SDL.ProcessEvents returns for every finite queue of pending events,
\* having handed every event that was pending to processEvent, once each and
\* in the order of the queue, and leaving no event pending.
C8_SDLProcessEventsDrainsQueue ==
    (tag = "sdl" /\ op = "ProcessEvents") =>
        /\ processed = pending
        /\ queue = <<>>

\* C8 witness: two events were pending, a press of the left button and then a
\* QUIT, and one ProcessEvents call handled both.
C8_Witness ==
    /\ tag = "sdl"
    /\ op = "ProcessEvents"
    /\ Len(pending) = 2
    /\ pending[1] = [type |-> "MOUSEBUTTONDOWN", Button |-> "BUTTON_LEFT"]
    /\ pending[2].type = "QUIT"
    /\ processed = pending
    /\ queue = <<>>
    /\ platform.shouldStop
    /\ platform.buttonsDown[mouseButtonPrimary]

\* ShouldStop returns true exactly when a QUIT event has been handed to
\* processEvent since NewSDL.
ShouldStopIffQuitSeen ==
    (tag = "sdl" /\ platform # Nil) => (SDL_ShouldStop(platform) <=> quitSeen)

\* A step from a state in which ShouldStop returns true leads to a state in
\* which it returns true.
ShouldStopStays ==
    (tag = "sdl" /\ platform # Nil /\ SDL_ShouldStop(platform))
        => (platform' # Nil /\ SDL_ShouldStop(platform'))

\* C9: while main holds an SDL platform, ShouldStop returns true if and only
\* if a QUIT event has been processed since NewSDL (it is false after
\* construction, and no other event and no other operation changes it), and
\* once it returns true it returns true in every later state.
C9_SDLShouldStopIffQuit == []ShouldStopIffQuitSeen /\ [][ShouldStopStays]_vars

\* C9 witness: a QUIT event was processed in an earlier step, and a NewFrame
\* call afterwards left ShouldStop true.
C9_Witness ==
    /\ tag = "sdl"
    /\ platform # Nil
    /\ op = "NewFrame"
    /\ quitSeen
    /\ SDL_ShouldStop(platform)

\* The library's name of button i (0 primary, 1 secondary, 2 tertiary).
HardwareButton(t, i) ==
    IF t = "sdl"
    THEN CASE i = 0 -> "BUTTON_LEFT" [] i = 1 -> "BUTTON_RIGHT" [] i = 2 -> "BUTTON_MIDDLE"
    ELSE CASE i = 0 -> "MouseButton1" [] i = 1 -> "MouseButton2" [] i = 2 -> "MouseButton3"

SetMouseButtonDownCalls(i) ==
    SelectSeq(ioCalls, LAMBDA call : call[1] = "SetMouseButtonDown" /\ call[2] = i)

LatchOf(t, p) == IF t = "sdl" THEN p.buttonsDown ELSE p.mouseJustPressed

\* C10: on both platforms NewFrame makes one SetMouseButtonDown call for each
\* of the three buttons; the call for button i reports the button down when a
\* press event for it was handled since the previous NewFrame, whatever the
\* polled hardware state, and otherwise reports exactly the polled hardware
\* state; and NewFrame leaves the latch of every button cleared.
C10_MousePressLatched ==
    op = "NewFrame" =>
        /\ \A i \in 0..2 :
              SetMouseButtonDownCalls(i) =
                  << <<"SetMouseButtonDown", i,
                       i \in pressedAtFrame \/ HardwareButton(tag, i) \in polled.state>> >>
        /\ \A i \in 0..2 : ~LatchOf(tag, platform)[i]

\* C10 witness: the right button was pressed and released between two frames,
\* so that the SDL platform's NewFrame polled no button down and still
\* reported the right button down.
C10_Witness ==
    /\ tag = "sdl"
    /\ op = "NewFrame"
    /\ pressedAtFrame = {1}
    /\ polled.state = {}
    /\ SetMouseButtonDownCalls(1) = << <<"SetMouseButtonDown", 1, TRUE>> >>
    /\ SetMouseButtonDownCalls(0) = << <<"SetMouseButtonDown", 0, FALSE>> >>

\* The last step was a Render call with a framebuffer of width <= 0 or
\* height <= 0.
RenderedMinimized ==
    /\ glOp = "Render"
    /\ \/ renderArgs.framebufferSize[1] <= 0
       \/ renderArgs.framebufferSize[2] <= 0

\* A minimized Render call made no graphics call and no user callback, left
\* the clip rectangles of the draw data as they were and left the context as
\* it was before the call.
MinimizedRenderDidNothing ==
    RenderedMinimized =>
        /\ glLog = <<>>
        /\ renderArgs.drawDataAfter = renderArgs.drawData
        /\ gl = glBefore
        /\ gl.objects["vertexArray"] = glBefore.objects["vertexArray"]

\* A step that is a minimized Render call leaves the renderer's fields, the
\* context and the font atlas as they are.
MinimizedRenderKeepsFields ==
    RenderedMinimized' => (r3' = r3 /\ gl' = gl /\ fontTexID' = fontTexID)

\* C11: when the framebuffer width is <= 0 or the framebuffer height is <= 0,
\* Render returns without issuing any graphics call, without scaling the clip
\* rectangles of the draw data, without creating a vertex array object and
\* without invoking any user callback, and leaves the GL state and the
\* renderer's fields unchanged.
C11_MinimizedRenderIsNoOp ==
    []MinimizedRenderDidNothing /\ [][MinimizedRenderKeepsFields]_vars

\* C11 witness: a minimized Render call of a constructed renderer, on a draw
\* data that has a command with a user callback and a command whose clip
\* rectangle scaling would change.
C11_Witness ==
    /\ RenderedMinimized
    /\ r3 # Nil
    /\ r3.shaderHandle # 0
    /\ renderArgs.framebufferSize[1] < 0
    /\ ~NoUserCallback(renderArgs.drawData)
    /\ \E i \in 1..Len(renderArgs.drawData) :
          \E j \in 1..Len(renderArgs.drawData[i].commands) :
              renderArgs.drawData[i].commands[j].callback = "none"

\* The number of times `entry` occurs in a call log, and the positions at
\* which it occurs.
PositionsOf(log, entry) == { i \in 1..Len(log) : log[i] = entry }

CountOf(log, entry) == Cardinality(PositionsOf(log, entry))

\* The delete and detach calls of a call log.
IsDeleteOrDetach(entry) ==
    entry[1] \in {"DeleteBuffers", "DeleteShader", "DeleteProgram", "DeleteTextures",
                  "DetachShader"}

DeleteOrDetachCalls(log) == { i \in 1..Len(log) : IsDeleteOrDetach(log[i]) }

\* The delete call each device object of renderer fields r is released with.
DeleteCallsOf(r) ==
    { <<"DeleteBuffers", r.vboHandle>>, <<"DeleteBuffers", r.elementsHandle>>,
      <<"DeleteShader", r.vertHandle>>, <<"DeleteShader", r.fragHandle>>,
      <<"DeleteProgram", r.shaderHandle>>, <<"DeleteTextures", r.fontTexture>> }

\* Every position of entry a in the log is before every position of entry b.
AllBefore(log, a, b) ==
    \A i \in PositionsOf(log, a) : \A j \in PositionsOf(log, b) : i < j

\* A Dispose step: the fields left, the delete calls made and their order.
DisposeCleansUp ==
    (glOp' = "Dispose") =>
        /\ r3'.vboHandle = 0 /\ r3'.elementsHandle = 0
        /\ r3'.vertHandle = 0 /\ r3'.fragHandle = 0
        /\ r3'.shaderHandle = 0 /\ r3'.fontTexture = 0
        /\ (r3.fontTexture # 0) => (fontTexID' = 0)
        /\ \A call \in DeleteCallsOf(r3) :
              CountOf(glLog', call) = IF call[2] # 0 THEN 1 ELSE 0
        /\ \A i \in 1..Len(glLog') :
              /\ IsDeleteOrDetach(glLog'[i])
              /\ glLog'[i][1] # "DetachShader" => glLog'[i] \in DeleteCallsOf(r3)
        /\ (r3.vertHandle # 0 /\ r3.shaderHandle # 0) =>
              /\ CountOf(glLog', <<"DetachShader", r3.shaderHandle, r3.vertHandle>>) = 1
              /\ AllBefore(glLog', <<"DetachShader", r3.shaderHandle, r3.vertHandle>>,
                                   <<"DeleteShader", r3.vertHandle>>)
        /\ (r3.fragHandle # 0 /\ r3.shaderHandle # 0) =>
              /\ CountOf(glLog', <<"DetachShader", r3.shaderHandle, r3.fragHandle>>) = 1
              /\ AllBefore(glLog', <<"DetachShader", r3.shaderHandle, r3.fragHandle>>,
                                   <<"DeleteShader", r3.fragHandle>>)
        /\ AllBefore(glLog', <<"DeleteShader", r3.vertHandle>>,
                             <<"DeleteProgram", r3.shaderHandle>>)
        /\ AllBefore(glLog', <<"DeleteShader", r3.fragHandle>>,
                             <<"DeleteProgram", r3.shaderHandle>>)
        /\ (glOp = "Dispose" \/ r3.vboHandle = 0) => DeleteOrDetachCalls(glLog') = {}

\* C12: after Dispose the fields vboHandle, elementsHandle, vertHandle,
\* fragHandle, shaderHandle and fontTexture are all 0 and the font atlas
\* texture ID is 0 if fontTexture was non-zero; each handle that was non-zero
\* receives exactly one delete call, each shader is detached from the program
\* before it is deleted and the program is deleted after both shaders; a
\* second Dispose issues no delete or detach call at all.
C12_DisposeExactlyOnce == [][DisposeCleansUp]_vars

\* C12 witness: the first Dispose of a constructed renderer, which released
\* six objects that existed and detached two shaders that were attached.
C12_Witness ==
    /\ glOp = "Dispose"
    /\ Cardinality(DeleteOrDetachCalls(glLog)) = 8
    /\ Cardinality(glBefore.attached) = 2
    /\ glBefore.objects["buffer"] # gl.objects["buffer"]
    /\ r3.shaderHandle = 0
    /\ fontTexID = 0

\* A Dispose of a renderer that was disposed before: no call at all.
SecondDisposeReached == glOp = "Dispose" /\ glLog = <<>> /\ r3 # Nil

\* The last step was a Render call that got past the framebuffer size check.
RenderedFrame ==
    /\ glOp = "Render"
    /\ renderArgs.framebufferSize[1] > 0
    /\ renderArgs.framebufferSize[2] > 0

\* C13: after a Render call with positive framebuffer size the front polygon
\* mode and the back polygon mode each equal their value before the call, for
\* every initial pair of modes, also when the two differ.
C13_PolygonModeRestoredPerFace ==
    RenderedFrame =>
        /\ gl.polygonMode.front = glBefore.polygonMode.front
        /\ gl.polygonMode.back = glBefore.polygonMode.back

\* After a Render call the front mode is as before and the back mode is the
\* front mode of before.
PolygonModeRestoredFromFront ==
    RenderedFrame =>
        /\ gl.polygonMode.front = glBefore.polygonMode.front
        /\ gl.polygonMode.back = glBefore.polygonMode.front

\* C13 witness: a Render call from a context with front mode LINE and back
\* mode FILL left the back mode LINE.
C13_Witness ==
    /\ RenderedFrame
    /\ glBefore.polygonMode = [front |-> "LINE", back |-> "FILL"]
    /\ gl.polygonMode = [front |-> "LINE", back |-> "LINE"]

\* The keys a case table gives for a label: the results of its cases with
\* that label.
CaseResults(cases, x) == { cases[i][2] : i \in { j \in 1..Len(cases) : cases[j][1] = x } }

\* A keycode and a scancode that both have a case and name the same physical
\* key.
SamePhysicalKey ==
    { <<"K_COMMA", "SCANCODE_COMMA">>, <<"K_PERIOD", "SCANCODE_PERIOD">>,
      <<"K_SEMICOLON", "SCANCODE_SEMICOLON">> }

\* C14: in sdl2KeyEventToImguiKey the keycode takes precedence and the
\* scancode is only a fallback: when the keycode has a case in the first
\* switch the result is that case's key whatever the scancode is; the scancode
\* switch decides the result only when the keycode has no case; for comma,
\* period and semicolon, whose keycode and scancode both have a case, both
\* switches give the same key.
C14_KeycodeBeforeScancode ==
    (keyLib = "sdl" /\ keyResult # "unset") =>
        /\ keyArg[1] \in CaseLabels(sdl2KeycodeCases) =>
              CaseResults(sdl2KeycodeCases, keyArg[1]) = {keyResult}
        /\ (/\ keyArg[1] \notin CaseLabels(sdl2KeycodeCases)
            /\ keyArg[2] \in CaseLabels(sdl2ScancodeCases)) =>
              CaseResults(sdl2ScancodeCases, keyArg[2]) = {keyResult}
        /\ keyArg \in SamePhysicalKey =>
              /\ CaseResults(sdl2ScancodeCases, keyArg[2]) = {keyResult}
              /\ CaseResults(sdl2KeycodeCases, keyArg[1]) = {keyResult}

\* C14 witness: a keycode with a case was translated together with a scancode
\* whose case names another key, and the keycode's key was returned.
C14_Witness ==
    /\ keyLib = "sdl"
    /\ keyArg = <<"K_COMMA", "SCANCODE_PERIOD">>
    /\ keyResult = "KeyComma"

\* The calls C15 asks for one GLFW key callback: the key event when the
\* action is Press or Release, then the four modifier events in the order
\* Ctrl, Shift, Alt, Super.
GlfwKeyCalls(ev) ==
    (CASE ev.action = "Press" ->
            << <<"AddKeyEvent", glfwKeyEventToImguiKey(ev.key, ev.scancode), TRUE>> >>
       [] ev.action = "Release" ->
            << <<"AddKeyEvent", glfwKeyEventToImguiKey(ev.key, ev.scancode), FALSE>> >>
       [] OTHER -> <<>>)
    \o << <<"AddKeyEvent", "KeyModCtrl", "ModControl" \in ev.mods>>,
          <<"AddKeyEvent", "KeyModShift", "ModShift" \in ev.mods>>,
          <<"AddKeyEvent", "KeyModAlt", "ModAlt" \in ev.mods>>,
          <<"AddKeyEvent", "KeyModSuper", "ModSuper" \in ev.mods>> >>

RECURSIVE GlfwKeyCallsOf(_)
GlfwKeyCallsOf(evs) ==
    IF evs = <<>> THEN <<>>
    ELSE (IF Head(evs).type = "key" THEN GlfwKeyCalls(Head(evs)) ELSE <<>>)
         \o GlfwKeyCallsOf(Tail(evs))

\* C15: GLFW.keyChange forwards a key event for the mapped key exactly when
\* the action is Press (down) or Release (up) and none for any other action,
\* and in all three cases forwards afterwards exactly four modifier events,
\* Ctrl, Shift, Alt, Super in that order, with the bits of the callback's
\* modifier mask; so the AddKeyEvent calls of GLFW.ProcessEvents are these
\* calls for each key callback in the order the callbacks are invoked.
C15_GLFWKeyChange ==
    (tag = "glfw" /\ op = "ProcessEvents") =>
        SelectSeq(ioCalls, IsAddKeyEvent) = GlfwKeyCallsOf(processed)

\* C15 witness: a Repeat of W with Super held and then a Press of A with
\* Control held were handled: four modifier events, then the key event of A
\* and four modifier events.
C15_Witness ==
    /\ tag = "glfw"
    /\ op = "ProcessEvents"
    /\ Len(processed) = 2
    /\ processed[1].type = "key" /\ processed[1].action = "Repeat"
    /\ processed[2].type = "key" /\ processed[2].action = "Press"
    /\ Len(ioCalls) = 9
    /\ ioCalls[4] = <<"AddKeyEvent", "KeyModSuper", TRUE>>
    /\ ioCalls[5] = <<"AddKeyEvent", "KeyA", TRUE>>
    /\ ioCalls[6] = <<"AddKeyEvent", "KeyModCtrl", TRUE>>

\* The calls of the draw loop in the log of a Render call: those after the
\* last vertex attribute description and before the vertex array is deleted.
DrawLoopCalls(log) ==
    LET first == CHOOSE i \in 1..Len(log) :
                    /\ log[i][1] = "VertexAttribPointerWithOffset"
                    /\ \A k \in (i + 1)..Len(log) :
                          log[k][1] # "VertexAttribPointerWithOffset"
        last  == CHOOSE i \in 1..Len(log) : log[i][1] = "DeleteVertexArrays"
    IN  SubSeq(log, first + 1, last - 1)

\* What C16 looks at in a call: its name, and the buffer, texture, callback or
\* element count it is made with.
CallShape(call) ==
    CASE call[1] = "Scissor" -> <<"Scissor">>
      [] call[1] = "DrawElementsBaseVertexWithOffset" -> <<call[1], call[2]>>
      [] OTHER -> call

\* The calls C16 asks for one command, one list and a sequence of lists.
CommandShapes(cmd) ==
    IF cmd.callback # "none"
    THEN << <<"UserCallback", cmd.callback>> >>
    ELSE << <<"BindTexture", cmd.textureID>>, <<"Scissor">>,
            <<"DrawElementsBaseVertexWithOffset", cmd.elementCount>> >>

RECURSIVE CommandsShapes(_)
CommandsShapes(cmds) ==
    IF cmds = <<>> THEN <<>>
    ELSE CommandShapes(Head(cmds)) \o CommandsShapes(Tail(cmds))

RECURSIVE ListsShapes(_, _)
ListsShapes(lists, r) ==
    IF lists = <<>> THEN <<>>
    ELSE << <<"BindBuffer", "ARRAY_BUFFER", r.vboHandle>>,
            <<"BufferData", "ARRAY_BUFFER", Head(lists).vertexBuffer>>,
            <<"BindBuffer", "ELEMENT_ARRAY_BUFFER", r.elementsHandle>>,
            <<"BufferData", "ELEMENT_ARRAY_BUFFER", Head(lists).indexBuffer>> >>
         \o CommandsShapes(Head(lists).commands)
         \o ListsShapes(Tail(lists), r)

RECURSIVE CommandsWithoutCallback(_)
CommandsWithoutCallback(drawData) ==
    IF drawData = <<>> THEN 0
    ELSE Cardinality({ j \in 1..Len(Head(drawData).commands) :
                          Head(drawData).commands[j].callback = "none" })
         + CommandsWithoutCallback(Tail(drawData))

IsDrawCall(call) == call[1] = "DrawElementsBaseVertexWithOffset"

\* C16: with positive framebuffer size the command lists are processed in
\* their given order; for each list the vertex buffer and then the index
\* buffer are uploaded exactly once, before any command of that list; each
\* command is executed in order and produces either a call of its user
\* callback and no draw call, or one texture bind, one scissor call and one
\* indexed draw call in that order; the number of draw calls equals the number
\* of commands without a user callback.
C16_CommandListsInOrder ==
    RenderedFrame =>
        /\ [i \in 1..Len(DrawLoopCalls(glLog)) |-> CallShape(DrawLoopCalls(glLog)[i])]
             = ListsShapes(renderArgs.drawData, r3)
        /\ Len(SelectSeq(glLog, IsDrawCall))
             = CommandsWithoutCallback(renderArgs.drawData)

\* C16 witness: a Render call of a constructed renderer on two lists, the
\* first with a user callback and the second with a draw command: the second
\* list's buffers were uploaded after the callback ran and before the draw call.
C16_Witness ==
    /\ RenderedFrame
    /\ r3.vboHandle # 0
    /\ Len(renderArgs.drawData) = 2
    /\ Len(renderArgs.drawData[1].commands) = 1
    /\ Len(renderArgs.drawData[2].commands) = 1
    /\ renderArgs.drawData[1].commands[1].callback # "none"
    /\ renderArgs.drawData[2].commands[1].callback = "none"
    /\ Len(DrawLoopCalls(glLog)) = 12
    /\ DrawLoopCalls(glLog)[5][1] = "UserCallback"
    /\ DrawLoopCalls(glLog)[7] = <<"BufferData", "ARRAY_BUFFER", <<"vertices", 2>>>>
    /\ DrawLoopCalls(glLog)[12][1] = "DrawElementsBaseVertexWithOffset"

\* The positions in a call log of the calls with a given name.
CallsNamed(log, name) == { i \in 1..Len(log) : log[i][1] = name }

\* In the log of a Render call: one vertex array object is generated, it is
\* bound before any draw call, and that same object is deleted after the last
\* draw call and before the vertex array binding is restored.
OneVertexArrayPerRender(log) ==
    /\ Cardinality(CallsNamed(log, "GenVertexArrays")) = 1
    /\ Cardinality(CallsNamed(log, "DeleteVertexArrays")) = 1
    /\ Cardinality(CallsNamed(log, "BindVertexArray")) = 2
    /\ LET gen  == CHOOSE i \in CallsNamed(log, "GenVertexArrays") : TRUE
           del  == CHOOSE i \in CallsNamed(log, "DeleteVertexArrays") : TRUE
           bind == CHOOSE i \in CallsNamed(log, "BindVertexArray") :
                      \A k \in CallsNamed(log, "BindVertexArray") : i <= k
           back == CHOOSE i \in CallsNamed(log, "BindVertexArray") :
                      \A k \in CallsNamed(log, "BindVertexArray") : k <= i
       IN  /\ log[gen][2] # 0
           /\ log[gen][2] \notin glBefore.objects["vertexArray"]
           /\ log[bind] = <<"BindVertexArray", log[gen][2]>>
           /\ log[del] = <<"DeleteVertexArrays", log[gen][2]>>
           /\ log[back] = <<"BindVertexArray", glBefore.vertexArray>>
           /\ gen < bind
           /\ \A k \in CallsNamed(log, "DrawElementsBaseVertexWithOffset") :
                 bind < k /\ k < del
           /\ \A k \in CallsNamed(log, "UserCallback") : bind < k /\ k < del
           /\ del < back

\* C17: each Render call that passes the framebuffer size check generates
\* exactly one vertex array object, binds it before any draw call, and deletes
\* that same object after the last draw call and before restoring the
\* previously bound vertex array; after any sequence of calls the vertex array
\* objects alive are those of the application, none created by the renderer.
C17_VertexArrayNeverLeaked ==
    /\ RenderedFrame => OneVertexArrayPerRender(glLog)
    /\ glOp # "off" => gl.objects["vertexArray"] = AppObjects["vertexArray"]

\* C17 witness: a Render call that made two draw calls while a vertex array
\* of the application was bound, and left only that vertex array alive.
C17_Witness ==
    /\ RenderedFrame
    /\ glBefore.vertexArray = 1
    /\ gl.vertexArray = 1
    /\ Cardinality(CallsNamed(glLog, "DrawElementsBaseVertexWithOffset")) = 2
    /\ <<"GenVertexArrays", 2>> \in { glLog[i] : i \in 1..Len(glLog) }
    /\ <<"DeleteVertexArrays", 2>> \in { glLog[i] : i \in 1..Len(glLog) }
    /\ gl.objects["vertexArray"] = {1}

IsWheelCall(call) == call[1] = "AddMouseWheelDelta"

\* The sign of a whole number.
Sign(n) == IF n > 0 THEN 1 ELSE IF n < 0 THEN -1 ELSE 0

Magnitude(n) == IF n < 0 THEN 0 - n ELSE n

\* The AddMouseWheelDelta calls asked of SDL.ProcessEvents: for each
\* MOUSEWHEEL event in the order polled, one call with the signs of its amounts.
RECURSIVE SDLWheelCallsOf(_)
SDLWheelCallsOf(evs) ==
    IF evs = <<>> THEN <<>>
    ELSE (IF Head(evs).type = "MOUSEWHEEL"
          THEN << <<"AddMouseWheelDelta", Sign(Head(evs).X), Sign(Head(evs).Y)>> >>
          ELSE <<>>)
         \o SDLWheelCallsOf(Tail(evs))

SDLForwardsWheelSign ==
    (tag = "sdl" /\ op = "ProcessEvents") =>
        /\ SelectSeq(ioCalls, IsWheelCall) = SDLWheelCallsOf(processed)
        /\ \A i \in 1..Len(ioCalls) :
              IsWheelCall(ioCalls[i]) =>
                  ioCalls[i][2] \in {-1, 0, 1} /\ ioCalls[i][3] \in {-1, 0, 1}

\* The scroll callbacks among the events handled, in order.
IsScroll(ev) == ev.type = "scroll"

\* C18 as stated: SDL forwards a wheel event as one call with the signs of its
\* amounts, each in {-1, 0, 1}, and the GLFW platform forwards the scroll
\* callback's (x, y) unchanged.
C18_WheelSignAndScrollUnchanged ==
    /\ SDLForwardsWheelSign
    /\ (tag = "glfw" /\ op = "ProcessEvents") =>
          SelectSeq(ioCalls, IsWheelCall) =
              [i \in 1..Len(SelectSeq(processed, IsScroll)) |->
                  <<"AddMouseWheelDelta", SelectSeq(processed, IsScroll)[i].x,
                    SelectSeq(processed, IsScroll)[i].y>>]

\* A whole number a float32 holds exactly: its magnitude is a number below
\* 2^24 times a power of two.
FitsFloat32(n) ==
    \E k \in 0..7 :
        /\ Magnitude(n) % (2 ^ k) = 0
        /\ Magnitude(n) \div (2 ^ k) < 16777216

\* The amount a float64 amount x is forwarded as by a conversion to float32:
\* x itself when a float32 holds it, and otherwise a float32 of the same sign
\* within a relative distance of 2^-24 of x.
ForwardedAsFloat32(f, x) ==
    /\ FitsFloat32(x) => f = x
    /\ FitsFloat32(f)
    /\ Sign(f) = Sign(x)
    /\ Magnitude(f - x) < 128
    /\ Magnitude(f - x) * 16777216 <= Magnitude(x)

\* C18, amended: SDL forwards a wheel event as one call with the signs of its
\* amounts, each in {-1, 0, 1}; the GLFW platform forwards, once per scroll
\* callback and in order, the callback's (x, y) converted to float32: the
\* amounts themselves when a float32 holds them, the nearest float32 otherwise.
C18_WheelSignAndScrollAsFloat32 ==
    /\ SDLForwardsWheelSign
    /\ (tag = "glfw" /\ op = "ProcessEvents") =>
          /\ Len(SelectSeq(ioCalls, IsWheelCall)) = Len(SelectSeq(processed, IsScroll))
          /\ \A i \in 1..Len(SelectSeq(processed, IsScroll)) :
                /\ ForwardedAsFloat32(SelectSeq(ioCalls, IsWheelCall)[i][2],
                                      SelectSeq(processed, IsScroll)[i].x)
                /\ ForwardedAsFloat32(SelectSeq(ioCalls, IsWheelCall)[i][3],
                                      SelectSeq(processed, IsScroll)[i].y)

\* C18 witness: SDL handled the wheel events (3, -2) and (0, 5) in one call
\* and forwarded (1, -1) and (0, 1).
C18_Witness ==
    /\ tag = "sdl"
    /\ op = "ProcessEvents"
    /\ Len(processed) = 2
    /\ processed[1] = [type |-> "MOUSEWHEEL", X |-> 3, Y |-> -2]
    /\ processed[2] = [type |-> "MOUSEWHEEL", X |-> 0, Y |-> 5]
    /\ ioCalls = << <<"AddMouseWheelDelta", 1, -1>>, <<"AddMouseWheelDelta", 0, 1>> >>

\* The GLFW scroll callback (3, -16777217) was handled and forwarded as
\* (3, -16777216).
ScrollRounded ==
    /\ tag = "glfw"
    /\ op = "ProcessEvents"
    /\ <<"AddMouseWheelDelta", 3, -16777216>> \in { ioCalls[i] : i \in 1..Len(ioCalls) }

====
